---------------------------- MODULE Spec2Model ----------------------------
(***************************************************************************)
(* A model of the Spark file-transfer tool's concurrency core:             *)
(*   - the process runtime        (src/src/spark/core/process.py)          *)
(*   - the transfer actor         (src/src/spark/fileshare/transfers.py)   *)
(*   - the service facade         (src/src/spark/messaging/service.py)     *)
(*   - the TCP messenger and the protocol negociator                       *)
(*         (src/src/spark/messaging/service.py, protocol.py)               *)
(* Each subsystem has its own specification over its own variables; the    *)
(* variables of the other subsystems stay at their initial values.         *)
(*   Spec         the process runtime                                      *)
(*   SpecTransfer one Transfer actor                                       *)
(*   SpecService  one Service session                                      *)
(*   SpecTcp      one TcpMessenger, its helpers and its remote peers       *)
(*   SpecTcpFair  SpecTcp, the messenger's and helpers' threads running    *)
(*   SpecMailbox  processes that send to each other, receive and are killed*)
(*   SpecLinked   two linked processes that send, receive and end          *)
(*   SpecLoop     a process in its message loop and a linked peer          *)
(*   SpecMatcher  one PatternMatcher                                       *)
(*   SpecFrame    one negociation frame written and read back              *)
(*   SpecNotifier a notifier, its caller and the processes that suscribe   *)
(*   SpecResponder the responder of a connection and any initiator         *)
(*   SpecChain    three linked processes that do not trap exits; its       *)
(*                threads run in SpecChainFair                             *)
(***************************************************************************)
EXTENDS Integers, Sequences, FiniteSets, TLC

(***************************************************************************)
(* Bounds of the model.                                                    *)
(***************************************************************************)
\* processes ever created (Process._nextID stops here)
MaxProcs == 3
\* mailbox capacity of the model (BlockingQueue(64) in the code, scaled down)
QueueSize == 2
\* user messages one process sends
MaxSends == 2
\* processes of SpecMailbox
MailboxProcs == 2

Pids == 1..MaxProcs
NoPid == 0

(***************************************************************************)
(* Variables of the process runtime (class Process).                       *)
(***************************************************************************)
VARIABLES
    registry,      \* Process._processes: the PIDs with a Process record
    nextID,        \* Process._nextID
    queue,         \* p.queue: the buffered messages of each mailbox
    isOpen,        \* p.queue.isOpen
    linked,        \* p.linked
    trapExit,      \* p.trapExit
    pc,            \* where each process' thread is: unborn, running, exiting, done
    current,       \* Process._current.p is bound in the process' thread
    lock,          \* owner of Process._lock (NoPid: free)
    gracefulExit,  \* local gracefulExit of Process._entry
    exitReason,    \* local exitReason of Process._entry
    todo,          \* the peers the loop of Process._entry has not visited yet
    sentCount,     \* history: user messages each process has sent
    lastGot,       \* history: lastGot[c][p] number of the last user message of p that c received
    exitSent,      \* history: exitSent[a][b] exit events of a put in b's mailbox
    trapAtExit,    \* history: the trapping peers of a when its body ended
    killedLog      \* history: killedLog[b] times "Killing linked process b" was logged

rtVars == <<registry, nextID, queue, isOpen, linked, trapExit, pc, current, lock,
            gracefulExit, exitReason, todo, sentCount, lastGot, exitSent,
            trapAtExit, killedLog>>

\* the transfer actor's state (class Transfer and its ProcessState)
VARIABLES
    trPc,            \* the actor's thread: loop (in ProcessBase.run) or done
    trExitReason,    \* exit reason of the actor's process
    transferState,   \* state.transferState
    direction,       \* state.direction
    fileSize,        \* state.file.size
    totalBlocks,     \* state.totalBlocks
    nextBlock,       \* state.nextBlock
    receivedBlocks,  \* state.receivedBlocks
    completedSize,   \* state.completedSize
    blockTable,      \* state.blockTable: the block IDs marked received
    hasBlockTable,   \* state.blockTable is not None
    offset,          \* state.offset
    started,         \* state.started is not None
    ended,           \* state.ended is not None
    streamMode,      \* state.stream: "None", "rb" or "wb"
    streamPos,       \* position of the open stream in its file
    disk,            \* the writes made to the download file, in order
    emitted,         \* history: the send-block commands sent to the session
    delivered,       \* history: deliveries of block-received since init, per block ID
    closedEvents,    \* history: transfer-state-changed events announcing "closed"
    cleanups         \* history: runs of Transfer.cleanup

trVars == <<trPc, trExitReason, transferState, direction, fileSize, totalBlocks,
            nextBlock, receivedBlocks, completedSize, blockTable, hasBlockTable, offset,
            started, ended, streamMode, streamPos, disk, emitted, delivered, closedEvents,
            cleanups>>

\* the two services of a session (class Service) and the messages between them
VARIABLES
    nextTransID,     \* state.nextTransID of each service
    outbox,          \* the messages each service handed to its messenger, in order
    pending,         \* the requests each service received and has not answered yet
    requested,       \* history: <<tag, transID>> of the requests each service sent
    notified,        \* history: <<tag, transID>> of the notifications each service sent
    answered         \* history: <<tag, transID>> of the responses each service received

svcVars == <<nextTransID, outbox, pending, requested, notified, answered>>

\* the two ends of a connection during protocol negociation (class Negociator);
\* the side "local" is this program, the side "remote" its peer
VARIABLES
    wire,            \* the bytes each side wrote that the other has not read yet
    negPc,           \* where each side's negociate() is
    negName,         \* the responder's choice, then the name negociate() returned
    negError,        \* the exception negociate() raised, "-" if none
    closed,          \* the side has closed its end of the connection
    supported,       \* Supported in each side's build, in the order join() lists it
    initiating,      \* the local side initiated the connection
    typed            \* history: typed messages each side wrote on the connection

negVars == <<wire, negPc, negName, negError, closed, supported, initiating, typed>>

\* the messenger process (class TcpMessenger), its helpers and its requester
VARIABLES
    mPc,             \* the messenger's thread: loop, negociating (in _connected), done
    mExit,           \* exit reason of the messenger process
    mbox,            \* the messenger's mailbox
    connState,       \* state.connState
    server,          \* state.server is not None
    conn,            \* state.conn: the helper whose socket it is, 0 for None
    protocol,        \* state.protocol, <<>> for None
    writer,          \* state.writer is not None
    receiver,        \* state.receiver, 0 for None
    acceptReceiver,  \* state.acceptReceiver, 0 for None
    connectReceiver, \* state.connectReceiver, 0 for None
    hKind,           \* each helper process: "accept" (TcpServer) or "connect" (TcpClient)
    hPc,             \* each helper's thread
    hBox,            \* the command in each helper's mailbox, "-" if none
    sock,            \* each helper's connection socket: none, open or closed
    events,          \* history: events sent to the requester and the subscribers
    issued,          \* history: commands the requester sent to the messenger, per tag
    forwarded        \* history: typed messages the helpers forwarded to the requester

tcpVars == <<mPc, mExit, mbox, connState, server, conn, protocol, writer, receiver,
             acceptReceiver, connectReceiver, hKind, hPc, hBox, sock, events, issued,
             forwarded>>

\* a message loop's matcher (class PatternMatcher)
VARIABLES
    patterns,        \* self.patterns: the (pattern, callable, result) entries, in order of addition
    invoked,         \* history: the callables the last match() invoked, in order
    matchResult      \* history: what the last match() returned or raised, "-" before the first

pmVars == <<patterns, invoked, matchResult>>

\* one negociation frame on a stream (Negociator.formatMessage / readMessage)
VARIABLES
    frPayload,       \* the message given to formatMessage
    frTail,          \* the bytes that follow the frame on the stream
    frBuf,           \* the bytes of the stream not read yet
    frResult         \* what readMessage returned or raised, status "-" before the read

frVars == <<frPayload, frTail, frBuf, frResult>>

\* a notifier (class ProcessNotifier, class EventSender) and the call of it
\* that is in progress
VARIABLES
    suscribers,      \* self.__suscribers
    ntPc,            \* the caller's position: idle, or sending (in the loop of __call__)
    ntCopy,          \* the local copy of the suscribers the loop iterates
    ntTodo,          \* the PIDs of the copy the loop has not visited yet
    ntOrder,         \* history: the PIDs the loop of this call visited, in order
    ntFailed,        \* history: the PIDs for which Process.send raised in this call
    ntSeq,           \* history: the number of calls made
    ntEvent,         \* the event EventSender.__call__ built, <<>> for a plain message
    ntRaised         \* what the last call raised to its caller, "-" if nothing

ntVars == <<suscribers, ntPc, ntCopy, ntTodo, ntOrder, ntFailed, ntSeq, ntEvent, ntRaised>>

\* what the actions of each part leave alone
rtFrame == <<trVars, svcVars, negVars, tcpVars, pmVars, frVars, ntVars>>
trFrame == <<rtVars, svcVars, negVars, tcpVars, pmVars, frVars, ntVars>>
svcFrame == <<rtVars, trVars, negVars, tcpVars, pmVars, frVars, ntVars>>
negFrame == <<rtVars, trVars, svcVars, tcpVars, pmVars, frVars, ntVars>>
tcpFrame == <<rtVars, trVars, svcVars, pmVars, frVars, ntVars>>
pmFrame == <<rtVars, trVars, svcVars, negVars, tcpVars, frVars, ntVars>>
frFrame == <<rtVars, trVars, svcVars, negVars, tcpVars, pmVars, ntVars>>
ntFrame == <<trVars, svcVars, negVars, tcpVars, pmVars, frVars>>


(***************************************************************************)
(* Messages.  A user message carries its sender and the sender's sequence  *)
(* number; Event("exit", pid, reason) is the runtime's exit notification.  *)
(***************************************************************************)
UserMsg(p, n) == [kind |-> "msg", from |-> p, k |-> n, reason |-> "-"]
ExitEvent(pid, reason) == [kind |-> "exit", from |-> pid, k |-> 0, reason |-> reason]

(***************************************************************************)
(* The mailbox, spark.core.queue.BlockingQueue: a bounded FIFO with a      *)
(* terminal closed state.  put appends at the tail, get takes the head,    *)
(* close(flush) keeps the buffered items when flush is true and discards   *)
(* them otherwise.                                                         *)
(***************************************************************************)
QueuePut(q, m) == Append(q, m)
QueueHead(q) == Head(q)
QueueRest(q) == Tail(q)
QueueFull(q) == Len(q) >= QueueSize
QueueAfterClose(q, flush) == IF flush THEN q ELSE <<>>
\* close returns whether this call performed the transition open -> closed
QueueCloses(open) == open

InitRuntime ==
    /\ registry = {}
    /\ nextID = 1
    /\ queue = [p \in Pids |-> <<>>]
    /\ isOpen = [p \in Pids |-> TRUE]
    /\ linked = [p \in Pids |-> {}]
    /\ trapExit = [p \in Pids |-> FALSE]
    /\ pc = [p \in Pids |-> "unborn"]
    /\ current = [p \in Pids |-> FALSE]
    /\ lock = NoPid
    /\ gracefulExit = [p \in Pids |-> FALSE]
    /\ exitReason = [p \in Pids |-> "-"]
    /\ todo = [p \in Pids |-> {}]
    /\ sentCount = [p \in Pids |-> 0]
    /\ lastGot = [c \in Pids |-> [p \in Pids |-> 0]]
    /\ exitSent = [a \in Pids |-> [b \in Pids |-> 0]]
    /\ trapAtExit = [p \in Pids |-> {}]
    /\ killedLog = [p \in Pids |-> 0]

(***************************************************************************)
(* Process._spawn and the first lines of Process._entry: a new PID and     *)
(* record, the links in both directions under the lock, then the thread    *)
(* binds Process._current.p and runs the body.                             *)
(***************************************************************************)
\* a link recorded in the new process only
LinkedOneWay(pid, linkedPid) == [linked EXCEPT ![pid] = @ \cup {linkedPid}]

\* "p.linked.add(linkedPid)" and "cls._processes[linkedPid].linked.add(pid)"
LinkedBothWays(pid, linkedPid) ==
    [linked EXCEPT ![pid] = @ \cup {linkedPid}, ![linkedPid] = @ \cup {pid}]

spawn_(linkedPid) ==
    /\ UNCHANGED rtFrame
    /\ nextID <= MaxProcs
    /\ lock = NoPid
    /\ registry' = registry \cup {nextID}
    /\ nextID' = nextID + 1
    /\ linked' = IF linkedPid # NoPid
                 THEN LinkedBothWays(nextID, linkedPid)
                 ELSE linked
    /\ pc' = [pc EXCEPT ![nextID] = "running"]
    /\ current' = [current EXCEPT ![nextID] = TRUE]
    /\ UNCHANGED <<queue, isOpen, trapExit, lock, gracefulExit, exitReason, todo,
                   sentCount, lastGot, exitSent, trapAtExit, killedLog>>

\* Process.spawn: callable from any thread
spawn == spawn_(NoPid)

\* Process.spawn_linked: the caller is the current process
spawn_linked(self) ==
    /\ pc[self] = "running"
    /\ spawn_(self)

\* Process.trap_exit
trap_exit(self) ==
    /\ UNCHANGED rtFrame
    /\ pc[self] = "running"
    /\ lock = NoPid
    /\ trapExit' = [trapExit EXCEPT ![self] = TRUE]
    /\ UNCHANGED <<registry, nextID, queue, isOpen, linked, pc, current, lock,
                   gracefulExit, exitReason, todo, sentCount, lastGot, exitSent,
                   trapAtExit, killedLog>>

(***************************************************************************)
(* The body of a process ends and Process._entry classifies the cause      *)
(* (lines 153-174), then enters its finally block and takes the lock.      *)
(***************************************************************************)
BodyEnds(self, graceful, reason) ==
    /\ pc[self] = "running"
    /\ lock = NoPid
    /\ lock' = self
    /\ pc' = [pc EXCEPT ![self] = "exiting"]
    /\ gracefulExit' = [gracefulExit EXCEPT ![self] = graceful]
    /\ exitReason' = [exitReason EXCEPT ![self] = reason]
    /\ todo' = [todo EXCEPT ![self] = linked[self]]
    /\ trapAtExit' = [trapAtExit EXCEPT ![self] = {b \in linked[self] : trapExit[b]}]

\* fun(*args) returns
body_return(self) ==
    /\ UNCHANGED rtFrame
    /\ BodyEnds(self, TRUE, "None")
    /\ UNCHANGED <<registry, nextID, queue, isOpen, linked, trapExit, current,
                   sentCount, lastGot, exitSent, killedLog>>

\* Process.exit(reason): reason None is graceful
exit(self, reason) ==
    /\ UNCHANGED rtFrame
    /\ BodyEnds(self, reason = "None", reason)
    /\ UNCHANGED <<registry, nextID, queue, isOpen, linked, trapExit, current,
                   sentCount, lastGot, exitSent, killedLog>>

\* PatternMatcher.match raised NoMatchException
no_match(self) ==
    /\ UNCHANGED rtFrame
    /\ BodyEnds(self, FALSE, "no-match")
    /\ UNCHANGED <<registry, nextID, queue, isOpen, linked, trapExit, current,
                   sentCount, lastGot, exitSent, killedLog>>

\* any other exception
exception(self) ==
    /\ UNCHANGED rtFrame
    /\ BodyEnds(self, FALSE, "exception")
    /\ UNCHANGED <<registry, nextID, queue, isOpen, linked, trapExit, current,
                   sentCount, lastGot, exitSent, killedLog>>

\* a send that looks at the target's mailbox before the caller's own
SendOutcomeTargetFirst(self, pid) ==
    IF ~isOpen[pid] THEN "ProcessExited"
    ELSE IF ~isOpen[self] THEN "ProcessKilled"
    ELSE IF QueueFull(queue[pid]) THEN "blocked"
    ELSE "ok"

(***************************************************************************)
(* Process.send(pid, m), called in the body of self.  The outcome is       *)
(*   "ProcessKilled"  the caller's own mailbox is closed                   *)
(*   "ProcessExited"  the target's mailbox is closed                       *)
(*   "ok"             m was put in the target's mailbox                    *)
(*   "blocked"        the target's mailbox is full: put waits              *)
(***************************************************************************)
SendOutcome(self, pid) ==
    IF ~isOpen[self] THEN "ProcessKilled"
    ELSE IF ~isOpen[pid] THEN "ProcessExited"
    ELSE IF QueueFull(queue[pid]) THEN "blocked"
    ELSE "ok"

\* a put that does not look at the closed flag
SendPutUnchecked(self, pid, m) == [queue EXCEPT ![pid] = QueuePut(@, m)]

\* a put at the head of the queue
SendPutFront(self, pid, m) ==
    IF SendOutcome(self, pid) = "ok"
    THEN [queue EXCEPT ![pid] = <<m>> \o @]
    ELSE queue

\* the mailboxes after Process.send(pid, m) by self
SendPut(self, pid, m) ==
    IF SendOutcome(self, pid) = "ok"
    THEN [queue EXCEPT ![pid] = QueuePut(@, m)]
    ELSE queue

\* Process.send in a body that does not catch its exceptions
send(self, pid) ==
    /\ UNCHANGED rtFrame
    /\ pc[self] = "running"
    /\ pid \in registry
    /\ sentCount[self] < MaxSends
    /\ lock = NoPid
    /\ SendOutcome(self, pid) # "blocked"
    /\ queue' = SendPut(self, pid, UserMsg(self, sentCount[self] + 1))
    /\ sentCount' = [sentCount EXCEPT ![self] = @ + 1]
    /\ CASE SendOutcome(self, pid) = "ok" ->
              UNCHANGED <<pc, lock, gracefulExit, exitReason, todo, trapAtExit>>
         [] SendOutcome(self, pid) = "ProcessKilled" ->
              BodyEnds(self, FALSE, "killed")
         [] SendOutcome(self, pid) = "ProcessExited" ->
              BodyEnds(self, FALSE, "exception")
    /\ UNCHANGED <<registry, nextID, isOpen, linked, trapExit, current, lastGot,
                   exitSent, killedLog>>

\* Process.try_send: ProcessExited becomes False, ProcessKilled propagates
try_send(self, pid) ==
    /\ UNCHANGED rtFrame
    /\ pc[self] = "running"
    /\ pid \in registry
    /\ sentCount[self] < MaxSends
    /\ lock = NoPid
    /\ SendOutcome(self, pid) # "blocked"
    /\ queue' = SendPut(self, pid, UserMsg(self, sentCount[self] + 1))
    /\ sentCount' = [sentCount EXCEPT ![self] = @ + 1]
    /\ CASE SendOutcome(self, pid) = "ProcessKilled" ->
              BodyEnds(self, FALSE, "killed")
         [] OTHER ->
              UNCHANGED <<pc, lock, gracefulExit, exitReason, todo, trapAtExit>>
    /\ UNCHANGED <<registry, nextID, isOpen, linked, trapExit, current, lastGot,
                   exitSent, killedLog>>

(***************************************************************************)
(* Process.receive: the head of the own mailbox; QueueClosedError (closed  *)
(* and nothing buffered) becomes ProcessKilled; an open empty mailbox      *)
(* blocks.                                                                 *)
(***************************************************************************)
receive(self) ==
    /\ UNCHANGED rtFrame
    /\ pc[self] = "running"
    /\ IF queue[self] # <<>>
       THEN /\ lastGot' = IF QueueHead(queue[self]).kind = "msg"
                          THEN [lastGot EXCEPT ![self][QueueHead(queue[self]).from] =
                                                   QueueHead(queue[self]).k]
                          ELSE lastGot
            /\ queue' = [queue EXCEPT ![self] = QueueRest(@)]
            /\ UNCHANGED <<pc, lock, gracefulExit, exitReason, todo, trapAtExit>>
       ELSE /\ ~isOpen[self]
            /\ BodyEnds(self, FALSE, "killed")
            /\ UNCHANGED <<queue, lastGot>>
    /\ UNCHANGED <<registry, nextID, isOpen, linked, trapExit, current, sentCount,
                   exitSent, killedLog>>

(***************************************************************************)
(* Process.kill(pid, flushQueue): closes the mailbox of a registered PID.  *)
(* Callable from any thread.  Closing a closed mailbox changes nothing.    *)
(***************************************************************************)
kill(pid, flushQueue) ==
    /\ UNCHANGED rtFrame
    /\ pid \in registry
    /\ lock = NoPid
    /\ isOpen' = [isOpen EXCEPT ![pid] = FALSE]
    /\ queue' = IF isOpen[pid]
                THEN [queue EXCEPT ![pid] = QueueAfterClose(@, flushQueue)]
                ELSE queue
    /\ UNCHANGED <<registry, nextID, linked, trapExit, pc, current, lock,
                   gracefulExit, exitReason, todo, sentCount, lastGot, exitSent,
                   trapAtExit, killedLog>>

(***************************************************************************)
(* One turn of the loop "for linkedPid in p.linked" of Process._entry      *)
(* (lines 182-187), run with the lock held.  The order in which a set is   *)
(* iterated is not specified: any peer not yet visited may come next.      *)
(***************************************************************************)
\* a loop that logs the kill of every peer of a process that died
KillsPeerUnguarded(self, linkedPid) == ~gracefulExit[self]

\* a loop that closes the mailbox of no peer
KillsNoPeer(self, linkedPid) == FALSE

\* "not gracefulExit and linkedProcess.queue.close()" (line 186)
KillsPeer(self, linkedPid) == ~gracefulExit[self] /\ QueueCloses(isOpen[linkedPid])

entry_notify(self, linkedPid) ==
    /\ UNCHANGED rtFrame
    /\ pc[self] = "exiting"
    /\ lock = self
    /\ linkedPid \in todo[self]
    /\ IF trapExit[linkedPid]
       THEN \* Process.try_send(linkedPid, Event("exit", pid, exitReason))
            /\ SendOutcome(self, linkedPid) # "blocked"
            /\ queue' = SendPut(self, linkedPid, ExitEvent(self, exitReason[self]))
            /\ exitSent' = IF SendOutcome(self, linkedPid) = "ok"
                           THEN [exitSent EXCEPT ![self][linkedPid] = @ + 1]
                           ELSE exitSent
            /\ IF SendOutcome(self, linkedPid) = "ProcessKilled"
               THEN \* ProcessKilled leaves the finally block: the loop stops,
                    \* _remove_current_process is skipped, the thread ends
                    /\ pc' = [pc EXCEPT ![self] = "done"]
                    /\ lock' = NoPid
                    /\ UNCHANGED todo
               ELSE /\ todo' = [todo EXCEPT ![self] = @ \ {linkedPid}]
                    /\ UNCHANGED <<pc, lock>>
            /\ UNCHANGED <<isOpen, killedLog>>
       ELSE \* elif not gracefulExit and linkedProcess.queue.close()
            /\ IF KillsPeer(self, linkedPid)
               THEN /\ isOpen' = [isOpen EXCEPT ![linkedPid] = FALSE]
                    /\ killedLog' = [killedLog EXCEPT ![linkedPid] = @ + 1]
               ELSE UNCHANGED <<isOpen, killedLog>>
            /\ todo' = [todo EXCEPT ![self] = @ \ {linkedPid}]
            /\ UNCHANGED <<queue, pc, lock, exitSent>>
    /\ UNCHANGED <<registry, nextID, linked, trapExit, current, gracefulExit,
                   exitReason, sentCount, lastGot, trapAtExit>>

(***************************************************************************)
(* Process._remove_current_process at the end of the finally block: the    *)
(* own mailbox is closed and the thread-local binding deleted.  The entry  *)
(* of Process._processes stays ("del cls._processes[...]" is commented     *)
(* out).                                                                   *)
(***************************************************************************)
remove_current_process(self) ==
    /\ UNCHANGED rtFrame
    /\ pc[self] = "exiting"
    /\ lock = self
    /\ todo[self] = {}
    /\ isOpen' = [isOpen EXCEPT ![self] = FALSE]
    /\ current' = [current EXCEPT ![self] = FALSE]
    /\ pc' = [pc EXCEPT ![self] = "done"]
    /\ lock' = NoPid
    /\ UNCHANGED <<registry, nextID, queue, linked, trapExit, gracefulExit,
                   exitReason, todo, sentCount, lastGot, exitSent, trapAtExit,
                   killedLog>>

(***************************************************************************)
(* The transfer actor (class Transfer).  One action is the receipt of one  *)
(* message by the actor's loop together with the whole handler it runs.    *)
(***************************************************************************)
\* blocks of the largest file of the model
MaxBlocks == 3
\* state.blockSize
BlockSize == 1024
\* length of the last block of the files that do not end on a block boundary
PartialLen == 452

UPLOAD == "upload"
DOWNLOAD == "download"

\* the file sizes of the model: empty, one byte, whole blocks, a partial last block
FileSizes ==
    {0, 1} \cup {n * BlockSize : n \in 1..MaxBlocks}
           \cup {n * BlockSize + PartialLen : n \in 1..(MaxBlocks - 1)}

\* the block IDs a block-received event may carry: in range, negative, too large
BlockIDs == (-1)..MaxBlocks

TransferStates == {"created", "inactive", "active", "finished", "closed"}

\* int(math.ceil(float(file.size) / state.blockSize))
TotalBlocksOf(size) == (size + BlockSize - 1) \div BlockSize

\* len(stream.read(blockSize)) at position pos of a file of the given size
ReadLen(size, pos) ==
    IF pos >= size THEN 0
    ELSE IF size - pos < BlockSize THEN size - pos ELSE BlockSize

\* the payload length of block b of the sender's file
BlockLen(size, b) == ReadLen(size, b * BlockSize)

InitTransfer ==
    /\ trPc = "loop"
    /\ trExitReason = "-"
    /\ transferState = "None"
    /\ direction = "None"
    /\ fileSize = 0
    /\ totalBlocks = 0
    /\ nextBlock = 0
    /\ receivedBlocks = 0
    /\ completedSize = 0
    /\ blockTable = {}
    /\ hasBlockTable = FALSE
    /\ offset = 0
    /\ started = FALSE
    /\ ended = FALSE
    /\ streamMode = "None"
    /\ streamPos = 0
    /\ disk = <<>>
    /\ emitted = <<>>
    /\ delivered = [b \in BlockIDs |-> 0]
    /\ closedEvents = 0
    /\ cleanups = 0

(***************************************************************************)
(* A step of the handlers is described by the record of the state fields   *)
(* it leaves; st is the record before, the result the record after.  The   *)
(* field "raised" names the exception that left the handler, if any.       *)
(***************************************************************************)
TrState ==
    [transferState |-> transferState, direction |-> direction,
     fileSize |-> fileSize, totalBlocks |-> totalBlocks, nextBlock |-> nextBlock,
     receivedBlocks |-> receivedBlocks, completedSize |-> completedSize,
     blockTable |-> blockTable, hasBlockTable |-> hasBlockTable, offset |-> offset, started |-> started,
     ended |-> ended, streamMode |-> streamMode, streamPos |-> streamPos,
     disk |-> disk, emitted |-> emitted, closedEvents |-> closedEvents,
     raised |-> "-"]

\* Transfer._changeTransferState
changeTransferState(st, newState) ==
    IF st.transferState # newState
    THEN [st EXCEPT !.transferState = newState,
                    !.closedEvents = IF newState = "closed" THEN @ + 1 ELSE @]
    ELSE st

\* Transfer._closeFile
closeFile(st) ==
    IF st.streamMode # "None" THEN [st EXCEPT !.streamMode = "None"] ELSE st

\* Transfer._transferComplete
transferComplete(st) ==
    changeTransferState([st EXCEPT !.ended = TRUE], "finished")

\* Transfer._sendFile
sendFile(st) ==
    IF st.transferState # "active" THEN st
    ELSE IF st.nextBlock >= st.totalBlocks THEN transferComplete(st)
    ELSE IF st.streamMode # "rb" THEN [st EXCEPT !.raised = "exception"]
    ELSE LET n == ReadLen(st.fileSize, st.streamPos) IN
         [st EXCEPT !.streamPos = @ + n,
                    !.offset = @ + n,
                    !.emitted = Append(@, [blockID |-> st.nextBlock,
                                           at |-> st.streamPos, len |-> n]),
                    !.nextBlock = @ + 1,
                    !.completedSize = @ + n]

\* Transfer._startTransfer
startTransfer(st) ==
    IF st.direction = UPLOAD
    THEN sendFile(changeTransferState([st EXCEPT !.started = TRUE], "active"))
    ELSE [st EXCEPT !.started = TRUE]

\* a close that closes the file and returns to the loop
closeTransferReturns(st) == closeFile(st)

\* Transfer._closeTransfer: closes the file and raises ProcessExit()
closeTransfer(st) == [closeFile(st) EXCEPT !.raised = "ProcessExit"]

\* Transfer.onRemoteStateChanged
onRemoteStateChanged(st, newState) ==
    LET s1 == changeTransferState(st, newState) IN
    IF newState = "active" THEN startTransfer(s1)
    ELSE IF newState = "closed" THEN closeTransfer(s1)
    ELSE s1

\* Transfer.doInitTransfer
doInitTransfer(st, dir, size) ==
    changeTransferState(
        [st EXCEPT !.direction = dir,
                   !.fileSize = size,
                   !.receivedBlocks = 0,
                   !.completedSize = 0,
                   !.totalBlocks = TotalBlocksOf(size),
                   !.nextBlock = IF dir = UPLOAD THEN 0 ELSE @,
                   !.blockTable = IF dir = DOWNLOAD THEN {} ELSE @,
                   !.hasBlockTable = IF dir = DOWNLOAD THEN TRUE ELSE @,
                   !.streamMode = IF dir = UPLOAD THEN "rb" ELSE "wb",
                   !.streamPos = 0,
                   !.disk = <<>>,
                   !.emitted = <<>>,
                   !.offset = 0,
                   !.transferState = "created"],
        "inactive")

\* a send-idle handler that tests neither the direction nor the start time
onSendIdleUnguarded(st) == sendFile(st)

\* Transfer.onSendIdle
onSendIdle(st) ==
    IF st.direction = UPLOAD /\ st.started THEN sendFile(st) ELSE st

\* a guard that does not look at the number of blocks
BlockNotReceived(st, blockID) == blockID \notin st.blockTable

\* "(not state.blockTable[blockID]) and (blockID < state.totalBlocks)"
BlockAccepted(st, blockID) ==
    (blockID \notin st.blockTable) /\ blockID < st.totalBlocks

\* Transfer.onBlockReceived for Block(transferID, blockID, blockData) where
\* blockData is block blockID of the sender's file
onBlockReceived(st, blockID) ==
    IF ~st.hasBlockTable THEN [st EXCEPT !.raised = "exception"]
    ELSE
    LET fileOffset == blockID * BlockSize
        n == BlockLen(st.fileSize, blockID)
        seeks == st.offset # fileOffset
        at == IF seeks THEN fileOffset ELSE st.streamPos
        s1 == IF BlockAccepted(st, blockID)
              THEN IF (seeks /\ fileOffset < 0) \/ st.streamMode # "wb"
                   THEN [st EXCEPT !.raised = "exception"]
                   ELSE [st EXCEPT
                           !.disk = Append(@, [blockID |-> blockID, at |-> at,
                                               len |-> n]),
                           !.streamPos = at + n,
                           !.offset = @ + n,
                           !.blockTable = @ \cup {blockID},
                           !.receivedBlocks = @ + 1,
                           !.completedSize = @ + n]
              ELSE st
    IN  IF s1.raised = "-" /\ s1.receivedBlocks = s1.totalBlocks
        THEN transferComplete(s1)
        ELSE s1

\* Transfer.cleanup, run by the finally clause of ProcessBase.run
cleanup(st) == changeTransferState(closeFile(st), "closed")

(***************************************************************************)
(* ProcessBase.run: the loop receives a message and runs its handler; when *)
(* the handler raises, cleanup runs and the process ends with the reason   *)
(* Process._entry gives the exception.                                     *)
(***************************************************************************)
Handled(res, dlv) ==
    LET fin == IF res.raised = "-" THEN res ELSE cleanup(res) IN
    /\ trPc = "loop"
    /\ trPc' = IF res.raised = "-" THEN "loop" ELSE "done"
    /\ trExitReason' = CASE res.raised = "-" -> trExitReason
                         [] res.raised = "ProcessExit" -> "None"
                         [] res.raised = "ProcessKilled" -> "killed"
                         [] res.raised = "NoMatchException" -> "no-match"
                         [] OTHER -> "exception"
    /\ cleanups' = IF res.raised = "-" THEN cleanups ELSE cleanups + 1
    /\ transferState' = fin.transferState
    /\ direction' = fin.direction
    /\ fileSize' = fin.fileSize
    /\ totalBlocks' = fin.totalBlocks
    /\ nextBlock' = fin.nextBlock
    /\ receivedBlocks' = fin.receivedBlocks
    /\ completedSize' = fin.completedSize
    /\ blockTable' = fin.blockTable
    /\ hasBlockTable' = fin.hasBlockTable
    /\ offset' = fin.offset
    /\ started' = fin.started
    /\ ended' = fin.ended
    /\ streamMode' = fin.streamMode
    /\ streamPos' = fin.streamPos
    /\ disk' = fin.disk
    /\ emitted' = fin.emitted
    /\ closedEvents' = fin.closedEvents
    /\ delivered' = dlv
    /\ UNCHANGED trFrame

NoDeliveries == [b \in BlockIDs |-> 0]

\* Command("init-transfer", transferID, direction, file, reqID, sessionPid)
DoInitTransfer(dir, size) == Handled(doInitTransfer(TrState, dir, size), NoDeliveries)

\* Command("start-transfer")
DoStartTransfer == Handled(startTransfer(TrState), delivered)

\* Command("close-transfer")
DoCloseTransfer == Handled(closeTransfer(TrState), delivered)

\* Event("send-idle")
OnSendIdle == Handled(onSendIdle(TrState), delivered)

\* Event("remote-state-changed", transferState)
OnRemoteStateChanged(newState) ==
    Handled(onRemoteStateChanged(TrState, newState), delivered)

\* Event("block-received", Block(transferID, blockID, blockData))
OnBlockReceived(blockID) ==
    Handled(onBlockReceived(TrState, blockID),
            [delivered EXCEPT ![blockID] = IF @ < 2 THEN @ + 1 ELSE @])

\* a stop command whose handling fails
DoStopFails == Handled([TrState EXCEPT !.raised = "exception"], delivered)

\* Command("stop"): the pattern's result is False, handleMessage calls Process.exit()
DoStop == Handled([TrState EXCEPT !.raised = "ProcessExit"], delivered)

\* Process.kill(pid): the next receive raises ProcessKilled
Killed == Handled([TrState EXCEPT !.raised = "ProcessKilled"], delivered)

\* a message none of the patterns matches: PatternMatcher.match raises
NoMatch == Handled([TrState EXCEPT !.raised = "NoMatchException"], delivered)

TransferNext ==
    \/ \E dir \in {UPLOAD, DOWNLOAD} : \E size \in FileSizes : DoInitTransfer(dir, size)
    \/ DoStartTransfer
    \/ DoCloseTransfer
    \/ OnSendIdle
    \/ \E newState \in TransferStates : OnRemoteStateChanged(newState)
    \/ \E blockID \in BlockIDs : OnBlockReceived(blockID)
    \/ DoStop
    \/ Killed
    \/ NoMatch

(***************************************************************************)
(* The service layer (class Service): transaction IDs of the messages two  *)
(* services exchange.  The messengers and the connection between them are  *)
(* a reliable ordered channel here: outbox[p] holds what p's messenger was *)
(* given to send and the other service has not received yet.               *)
(***************************************************************************)
\* the largest transaction ID a service allocates in the model
MaxTransID == 2
\* the most messages in one direction that are not received yet
MaxInFlight == 2

Services == {"client", "server"}
Tags == {"swap", "list"}

Other(p) == IF p = "client" THEN "server" ELSE "client"

\* Request(tag, *params).withID(transID), and the same for the other kinds
Request(tag, transID) == [kind |-> "Request", tag |-> tag, transID |-> transID]
Response(tag, transID) == [kind |-> "Response", tag |-> tag, transID |-> transID]
Notification(tag, transID) == [kind |-> "Notification", tag |-> tag, transID |-> transID]

InitService ==
    /\ nextTransID = [p \in Services |-> 1]
    /\ outbox = [p \in Services |-> <<>>]
    /\ pending = [p \in Services |-> {}]
    /\ requested = [p \in Services |-> {}]
    /\ notified = [p \in Services |-> {}]
    /\ answered = [p \in Services |-> {}]

\* an allocation that leaves the counter as it was
newTransIDKept(p) == [transID |-> nextTransID[p], next |-> nextTransID[p]]

\* Service._newTransID: the ID returned and the counter after the call
newTransID(p) == [transID |-> nextTransID[p], next |-> nextTransID[p] + 1]

\* state.messenger.send(message)
MessengerSend(p, m) == outbox' = [outbox EXCEPT ![p] = Append(@, m)]

\* Service.sendRequest
sendRequest(p, tag) ==
    /\ nextTransID[p] <= MaxTransID
    /\ Len(outbox[p]) < MaxInFlight
    /\ nextTransID' = [nextTransID EXCEPT ![p] = newTransID(p).next]
    /\ MessengerSend(p, Request(tag, newTransID(p).transID))
    /\ requested' = [requested EXCEPT ![p] = @ \cup {<<tag, newTransID(p).transID>>}]
    /\ UNCHANGED <<pending, notified, answered>>
    /\ UNCHANGED svcFrame

\* Service.sendNotification
sendNotification(p, tag) ==
    /\ nextTransID[p] <= MaxTransID
    /\ Len(outbox[p]) < MaxInFlight
    /\ nextTransID' = [nextTransID EXCEPT ![p] = newTransID(p).next]
    /\ MessengerSend(p, Notification(tag, newTransID(p).transID))
    /\ notified' = [notified EXCEPT ![p] = @ \cup {<<tag, newTransID(p).transID>>}]
    /\ UNCHANGED <<pending, requested, answered>>
    /\ UNCHANGED svcFrame

\* a variant of ResponseTo that draws a new transaction ID for the response
ResponseWithNewID(p, req) ==
    [msg |-> Response(req.tag, newTransID(p).transID), next |-> newTransID(p).next]

\* Service.sendResponse: the message handed to the messenger for the request
\* req and the counter after the call
ResponseTo(p, req) ==
    [msg |-> Response(req.tag, req.transID), next |-> nextTransID[p]]

\* Service.sendResponse, called by the handler of a received request
sendResponse(p, req) ==
    /\ req \in pending[p]
    /\ Len(outbox[p]) < MaxInFlight
    /\ MessengerSend(p, ResponseTo(p, req).msg)
    /\ nextTransID' = [nextTransID EXCEPT ![p] = ResponseTo(p, req).next]
    /\ pending' = [pending EXCEPT ![p] = @ \ {req}]
    /\ UNCHANGED <<requested, notified, answered>>
    /\ UNCHANGED svcFrame

\* the receive helper of p's messenger forwards the next message of the peer to
\* the service p: a request goes to its handler, a response to the caller
deliver(p) ==
    LET q == Other(p)
        m == Head(outbox[q])
    IN  /\ outbox[q] # <<>>
        /\ outbox' = [outbox EXCEPT ![q] = Tail(@)]
        /\ pending' = [pending EXCEPT ![p] =
                          IF m.kind = "Request" THEN @ \cup {m} ELSE @]
        /\ answered' = [answered EXCEPT ![p] =
                          IF m.kind = "Response" THEN @ \cup {<<m.tag, m.transID>>}
                          ELSE @]
        /\ UNCHANGED <<nextTransID, requested, notified>>
        /\ UNCHANGED svcFrame

ServiceNext ==
    \/ \E p \in Services : \E tag \in Tags : sendRequest(p, tag)
    \/ \E p \in Services : \E tag \in Tags : sendNotification(p, tag)
    \/ \E p \in Services : \E req \in pending[p] : sendResponse(p, req)
    \/ \E p \in Services : deliver(p)

(***************************************************************************)
(* Wire framing and protocol negociation (module protocol).  A string is   *)
(* the sequence of its characters.                                         *)
(***************************************************************************)
VERSION_1 == <<"S", "P", "A", "R", "K", "v", "1">>
\* the protocol of the build the specification's failure scenario talks to
VERSION_2 == <<"S", "P", "A", "R", "K", "v", "2">>
Str_supports == <<"s", "u", "p", "p", "o", "r", "t", "s">>
Str_protocol == <<"p", "r", "o", "t", "o", "c", "o", "l">>
Str_not_supported == <<"n", "o", "t", "-", "s", "u", "p", "p", "o", "r", "t", "e", "d">>

\* Supported of this program
Supported == <<VERSION_1>>

Sides == {"local", "remote"}
OtherSide(side) == IF side = "local" THEN "remote" ELSE "local"

\* the builds a side may be: Supported as the list join() makes of the set
ProtocolLists ==
    {<<VERSION_1>>, <<VERSION_2>>, <<VERSION_1, VERSION_2>>, <<VERSION_2, VERSION_1>>}

HexDigits ==
    <<"0", "1", "2", "3", "4", "5", "6", "7", "8", "9", "a", "b", "c", "d", "e", "f">>

\* "%04x" % n, for the lengths that fit in four digits
Hex4(n) ==
    <<HexDigits[((n \div 4096) % 16) + 1], HexDigits[((n \div 256) % 16) + 1],
      HexDigits[((n \div 16) % 16) + 1], HexDigits[(n % 16) + 1]>>

IsHex(str) == str # <<>> /\ \A i \in 1..Len(str) : \E d \in 1..16 : HexDigits[d] = str[i]

\* int(str, 16) of a string of hexadecimal digits
ParseHex(str) ==
    LET value[i \in 0..Len(str)] ==
            IF i = 0 THEN 0
            ELSE value[i - 1] * 16 + ((CHOOSE d \in 1..16 : HexDigits[d] = str[i]) - 1)
    IN  value[Len(str)]

Whitespace == {" ", "\t", "\n", "\r"}

\* a strip that keeps the string as it is
NoStrip == [str \in Seq(STRING) |-> str]

\* str.strip()
Strip ==
    [str \in Seq(STRING) |->
        LET kept == {i \in 1..Len(str) : str[i] \notin Whitespace} IN
        IF kept = {} THEN <<>>
        ELSE SubSeq(str, CHOOSE i \in kept : \A j \in kept : i <= j,
                         CHOOSE i \in kept : \A j \in kept : j <= i)]

\* str.split(" ")
Split ==
    [str \in Seq(STRING) |->
        LET spaces == {i \in 1..Len(str) : str[i] = " "}
            \* the position of the k-th space; 0 and Len(str) + 1 bound the string
            pos(k) == IF k = 0 THEN 0
                      ELSE IF k > Cardinality(spaces) THEN Len(str) + 1
                      ELSE CHOOSE i \in spaces : Cardinality({j \in spaces : j < i}) = k - 1
        IN  [k \in 1..(Cardinality(spaces) + 1) |->
                SubSeq(str, pos(k - 1) + 1, pos(k) - 1)]]

RECURSIVE Join(_)
\* " ".join(names)
Join(names) ==
    IF names = <<>> THEN <<>>
    ELSE IF Len(names) = 1 THEN names[1]
    ELSE names[1] \o <<" ">> \o Join(Tail(names))

\* a variant of formatMessage whose length counts the message only
formatMessageBare(m) == Hex4(Len(m)) \o <<" ">> \o m \o <<"\r", "\n">>

\* Negociator.formatMessage
formatMessage(m) ==
    LET data == <<" ">> \o m \o <<"\r", "\n">>
    IN  Hex4(Len(data)) \o data

\* Negociator.readMessage on the bytes buf that have arrived, eof telling that no
\* more will: a read blocks ("wait") until the bytes it asked for are there or
\* the stream has ended, and then returns what there is
readMessage(buf, eof) ==
    IF Len(buf) < 4 /\ ~eof THEN [status |-> "wait"]
    ELSE
    LET sizeStr == SubSeq(buf, 1, IF Len(buf) < 4 THEN Len(buf) ELSE 4) IN
    IF ~IsHex(sizeStr) THEN [status |-> "ValueError"]
    ELSE
    LET size == ParseHex(sizeStr)
        avail == Len(buf) - Len(sizeStr)
        got == IF avail < size THEN avail ELSE size
        data == SubSeq(buf, Len(sizeStr) + 1, Len(sizeStr) + got)
    IN  IF avail < size /\ ~eof THEN [status |-> "wait"]
        ELSE IF Len(data) = 0 THEN [status |-> "EOFError"]
        ELSE [status |-> "ok", message |-> Strip[data],
              rest |-> SubSeq(buf, Len(sizeStr) + got + 1, Len(buf))]

\* Negociator.readProtocol
readProtocol(buf, eof) ==
    LET r == readMessage(buf, eof) IN
    IF r.status # "ok" THEN r
    ELSE LET chunks == Split[r.message] IN
         IF chunks[1] # Str_protocol THEN [status |-> "NegociationError"]
         ELSE IF Len(chunks) < 2 THEN [status |-> "NegociationError"]
         ELSE [status |-> "ok", name |-> chunks[2], rest |-> r.rest]

\* Negociator.readSupportedProtocols
readSupportedProtocols(buf, eof) ==
    LET r == readMessage(buf, eof) IN
    IF r.status # "ok" THEN r
    ELSE LET chunks == Split[r.message] IN
         IF chunks[1] # Str_supports THEN [status |-> "NegociationError"]
         ELSE IF Len(chunks) < 2 THEN [status |-> "NegociationError"]
         ELSE [status |-> "ok", names |-> Tail(chunks), rest |-> r.rest]

InList(name, names) == \E i \in 1..Len(names) : names[i] = name

\* Negociator.chooseProtocol: the first proposed name that is supported, <<>> for
\* the NegociationError raised when there is none
chooseProtocol(proposedNames, mine) ==
    IF \E i \in 1..Len(proposedNames) : InList(proposedNames[i], mine)
    THEN proposedNames[CHOOSE i \in 1..Len(proposedNames) :
                          /\ InList(proposedNames[i], mine)
                          /\ \A j \in 1..(i - 1) : ~InList(proposedNames[j], mine)]
    ELSE <<>>

\* Negociator.writeSupportedProtocols
writeSupportedProtocols(mine) == formatMessage(Str_supports \o <<" ">> \o Join(mine))

\* Negociator.writeProtocol
writeProtocol(name) == formatMessage(Str_protocol \o <<" ">> \o name)

\* the side is the initiator of the connection
IsClient(side) == (side = "local") = initiating

\* the bytes the side can read, and whether the stream to it has ended
Incoming(side) == wire[OtherSide(side)]
AtEof(side) == closed[OtherSide(side)] \/ closed[side]

\* the side's negociate() ends: returns name, or raises error
NegReturn(side, name, error, written, rest) ==
    /\ negPc' = [negPc EXCEPT ![side] = IF error = "-" THEN "done" ELSE "failed"]
    /\ negName' = [negName EXCEPT ![side] = name]
    /\ negError' = [negError EXCEPT ![side] = error]
    /\ wire' = [wire EXCEPT ![side] = @ \o written, ![OtherSide(side)] = rest]

(***************************************************************************)
(* Negociator.negociate, a synchronous sequence of blocking reads and      *)
(* writes; one step runs from one blocking read to the next.               *)
(***************************************************************************)
\* clientNegociation up to its read: writes the supported protocols
clientStart(side) ==
    /\ negPc[side] = "start"
    /\ IsClient(side)
    /\ negPc' = [negPc EXCEPT ![side] = "readProtocol"]
    /\ wire' = [wire EXCEPT ![side] = @ \o writeSupportedProtocols(supported[side])]
    /\ UNCHANGED <<negName, negError>>

\* clientNegociation from its read on: reads the responder's choice, echoes it
clientFinish(side) ==
    /\ negPc[side] = "readProtocol"
    /\ \E r \in {readProtocol(Incoming(side), AtEof(side))} :
          /\ r.status # "wait"
          /\ IF r.status # "ok"
             THEN NegReturn(side, <<>>, r.status, <<>>, Incoming(side))
             ELSE IF ~InList(r.name, supported[side])
             THEN NegReturn(side, <<>>, "NegociationError", <<>>, r.rest)
             ELSE NegReturn(side, r.name, "-", writeProtocol(r.name), r.rest)

\* serverNegociation up to its second read: reads the proposal, writes its choice
serverChoose(side) ==
    /\ negPc[side] = "start"
    /\ ~IsClient(side)
    /\ \E r \in {readSupportedProtocols(Incoming(side), AtEof(side))} :
          /\ r.status # "wait"
          /\ IF r.status # "ok"
             THEN NegReturn(side, <<>>, r.status, <<>>, Incoming(side))
             ELSE \E choice \in {chooseProtocol(r.names, supported[side])} :
                  IF choice = <<>>
                  THEN NegReturn(side, <<>>, "NegociationError", <<>>, r.rest)
                  ELSE /\ negPc' = [negPc EXCEPT ![side] = "readEcho"]
                       /\ negName' = [negName EXCEPT ![side] = choice]
                       /\ wire' = [wire EXCEPT ![side] = @ \o writeProtocol(choice),
                                               ![OtherSide(side)] = r.rest]
                       /\ UNCHANGED negError

\* serverNegociation from its second read on: reads the echo and compares; the
\* branch of a differing echo uses the undefined name cont
serverFinish(side) ==
    /\ negPc[side] = "readEcho"
    /\ \E r \in {readProtocol(Incoming(side), AtEof(side))} :
          /\ r.status # "wait"
          /\ IF r.status # "ok"
             THEN NegReturn(side, <<>>, r.status, <<>>, Incoming(side))
             ELSE IF r.name # negName[side]
             THEN NegReturn(side, <<>>, "NameError", <<>>, r.rest)
             ELSE NegReturn(side, r.name, "-", <<>>, r.rest)

\* one step of the side's negociate()
negociateStep(side) ==
    \/ clientStart(side)
    \/ clientFinish(side)
    \/ serverChoose(side)
    \/ serverFinish(side)

\* negociate() of one side, run on its own
negociate(side) ==
    /\ negociateStep(side)
    /\ UNCHANGED <<closed, supported, initiating, typed>>
    /\ UNCHANGED negFrame

\* the owner of a side's file closes it once negociate() has ended
closeFile_(side) ==
    /\ negPc[side] \in {"done", "failed"}
    /\ ~closed[side]
    /\ closed' = [closed EXCEPT ![side] = TRUE]
    /\ UNCHANGED <<wire, negPc, negName, negError, supported, initiating, typed>>
    /\ UNCHANGED negFrame

\* no connection
InitNoConnection ==
    /\ wire = [side \in Sides |-> <<>>]
    /\ negPc = [side \in Sides |-> "idle"]
    /\ negName = [side \in Sides |-> <<>>]
    /\ negError = [side \in Sides |-> "-"]
    /\ closed = [side \in Sides |-> FALSE]
    /\ supported = [side \in Sides |-> Supported]
    /\ initiating = FALSE
    /\ typed = [side \in Sides |-> 0]

\* a new connection between two builds, either side the initiator
InitNegociation ==
    /\ wire = [side \in Sides |-> <<>>]
    /\ negPc = [side \in Sides |-> "start"]
    /\ negName = [side \in Sides |-> <<>>]
    /\ negError = [side \in Sides |-> "-"]
    /\ closed = [side \in Sides |-> FALSE]
    /\ supported \in [Sides -> ProtocolLists]
    /\ initiating \in BOOLEAN
    /\ typed = [side \in Sides |-> 0]

NegociationNext ==
    \/ \E side \in Sides : negociate(side)
    \/ \E side \in Sides : closeFile_(side)

(***************************************************************************)
(* SpecResponder: the local side is the responder of a connection whose    *)
(* initiator is any program: it writes well-formed frames of the           *)
(* negociation in any order and may close the connection.                  *)
(***************************************************************************)
\* unread bytes above which the initiator waits before it writes again
MaxUnread == 24

\* the frames the initiator writes
PeerFrames ==
    {writeSupportedProtocols(<<VERSION_1>>),
     writeSupportedProtocols(<<VERSION_2, VERSION_1>>),
     writeProtocol(VERSION_1),
     writeProtocol(VERSION_2),
     formatMessage(Str_not_supported)}

InitResponder ==
    /\ wire = [side \in Sides |-> <<>>]
    /\ negPc = [side \in Sides |-> IF side = "local" THEN "start" ELSE "peer"]
    /\ negName = [side \in Sides |-> <<>>]
    /\ negError = [side \in Sides |-> "-"]
    /\ closed = [side \in Sides |-> FALSE]
    /\ supported = [side \in Sides |-> Supported]
    /\ initiating = FALSE
    /\ typed = [side \in Sides |-> 0]

\* Negociator.serverNegociation of the local side, from one read to the next
serverNegociation ==
    /\ serverChoose("local") \/ serverFinish("local")
    /\ UNCHANGED <<closed, supported, initiating, typed>>
    /\ UNCHANGED negFrame

\* the initiator writes a frame
peer_write(frame) ==
    /\ ~closed["remote"]
    /\ Len(wire["remote"]) < MaxUnread
    /\ wire' = [wire EXCEPT !["remote"] = @ \o frame]
    /\ UNCHANGED <<negPc, negName, negError, closed, supported, initiating, typed>>
    /\ UNCHANGED negFrame

\* the initiator closes the connection
peer_close ==
    /\ ~closed["remote"]
    /\ closed' = [closed EXCEPT !["remote"] = TRUE]
    /\ UNCHANGED <<wire, negPc, negName, negError, supported, initiating, typed>>
    /\ UNCHANGED negFrame

ResponderNext ==
    \/ serverNegociation
    \/ \E frame \in PeerFrames : peer_write(frame)
    \/ peer_close
    \/ closeFile_("local")

(***************************************************************************)
(* The messenger (class TcpMessenger).  The messenger has one connection   *)
(* in place at most; wire, negPc, closed, ... describe the connection it   *)
(* adopted last, the side "remote" being the peer at its other end.  A     *)
(* helper's socket that is not the adopted connection is never read.       *)
(***************************************************************************)
\* commands the requester sends in the model
MaxCommands == 4
\* helper processes the messenger spawns in the model
MaxHelpers == 2
\* typed messages the peer writes on a connection in the model
MaxRemoteTyped == 1

DISCONNECTED == 0
CONNECTED == 1

Helpers == 1..MaxHelpers

CommandTags == {"connect", "listen", "accept", "disconnect", "send", "stop"}

EventTags ==
    {"listening", "connected", "protocol-negociated", "disconnected",
     "listen-error:invalid-state", "listen-error:socket",
     "accept-error:invalid-state", "accept-error:socket",
     "connection-error:invalid-state", "connection-error:socket",
     "send-error:invalid-state"}

\* a message of the messenger's mailbox; h is the helper that sent an event
Msg(tag, h) == [tag |-> tag, h |-> h]

\* the typed message of the model, as the writer serializes it
TypedMessage == <<">", " ", "s", "w", "a", "p">>

InitMessenger ==
    /\ mPc = "loop"
    /\ mExit = "-"
    /\ mbox = <<>>
    /\ connState = DISCONNECTED
    /\ server = FALSE
    /\ conn = 0
    /\ protocol = <<>>
    /\ writer = FALSE
    /\ receiver = 0
    /\ acceptReceiver = 0
    /\ connectReceiver = 0
    /\ hKind = [h \in Helpers |-> "-"]
    /\ hPc = [h \in Helpers |-> "unused"]
    /\ hBox = [h \in Helpers |-> "-"]
    /\ sock = [h \in Helpers |-> "none"]
    /\ events = [t \in EventTags |-> 0]
    /\ issued = [t \in CommandTags |-> 0]
    /\ forwarded = 0

\* a messenger of this program whose peers are builds with one protocol
InitTcp ==
    /\ InitMessenger
    /\ wire = [side \in Sides |-> <<>>]
    /\ negPc = [side \in Sides |-> "idle"]
    /\ negName = [side \in Sides |-> <<>>]
    /\ negError = [side \in Sides |-> "-"]
    /\ closed = [side \in Sides |-> FALSE]
    /\ supported \in {[local |-> Supported, remote |-> <<VERSION_1>>],
                      [local |-> Supported, remote |-> <<VERSION_2>>]}
    /\ initiating = FALSE
    /\ typed = [side \in Sides |-> 0]

(***************************************************************************)
(* The handlers of the messenger as functions of the fields they touch: st *)
(* is the record of the fields before, the result the record after; the    *)
(* field raised tells how the handler left the loop, "-" if it did not.    *)
(***************************************************************************)
TcpState ==
    [connState |-> connState, server |-> server, conn |-> conn,
     protocol |-> protocol, writer |-> writer, receiver |-> receiver,
     acceptReceiver |-> acceptReceiver, connectReceiver |-> connectReceiver,
     hKind |-> hKind, hPc |-> hPc, hBox |-> hBox, sock |-> sock,
     events |-> events, localClosed |-> closed["local"],
     remoteClosed |-> closed["remote"], raised |-> "-"]

\* Process.send(pid, Event(tag, ...)) to the requester, or an EventSender call
Emit(st, tag) == [st EXCEPT !.events[tag] = @ + 1]

\* the helper Process.spawn starts next
FreeHelper(st) ==
    CHOOSE h \in Helpers : st.hPc[h] = "unused" /\ \A g \in 1..(h - 1) : st.hPc[g] # "unused"

\* Process.spawn(self._waitForAccept, ...) and Process.spawn(self._waitForConnect, ...)
SpawnHelper(st, kind) ==
    [st EXCEPT !.hKind[FreeHelper(st)] = kind, !.hPc[FreeHelper(st)] = "waiting"]

\* TcpMessenger._closeConnection
_closeConnection(st) ==
    IF st.conn # 0
    THEN [st EXCEPT !.protocol = <<>>,
                    !.writer = FALSE,
                    !.receiver = 0,
                    !.sock[st.conn] = "closed",
                    !.localClosed = TRUE,
                    !.conn = 0,
                    !.connState = DISCONNECTED]
    ELSE st

\* TcpMessenger._closeServer
_closeServer(st) == IF st.server THEN [st EXCEPT !.server = FALSE] ELSE st

\* TcpMessenger._listen; bound tells whether bind and listen succeed
_listen(st, bound) ==
    IF st.server THEN Emit(st, "listen-error:invalid-state")
    ELSE IF bound THEN [Emit(st, "listening") EXCEPT !.server = TRUE]
    ELSE Emit(st, "listen-error:socket")

\* a variant of AcceptIgnored that ignores no command
AcceptNeverIgnored(st) == FALSE

\* the guard of TcpMessenger._accept that ignores the command
AcceptIgnored(st) == st.acceptReceiver # 0

\* the guard of TcpMessenger._accept that rejects the command
AcceptRejected(st) == st.connState # DISCONNECTED \/ ~st.server

\* TcpMessenger._accept
_accept(st) ==
    IF AcceptIgnored(st) THEN st
    ELSE IF AcceptRejected(st) THEN Emit(st, "accept-error:invalid-state")
    ELSE [SpawnHelper(st, "accept") EXCEPT !.acceptReceiver = FreeHelper(st)]

\* a variant of ConnectRejected that looks at the pending helper only
ConnectRejectedWhenPending(st) == st.connectReceiver # 0

\* the guard of TcpMessenger._connect that rejects the command
ConnectRejected(st) == st.connState # DISCONNECTED \/ st.connectReceiver # 0

\* TcpMessenger._connect
_connect(st) ==
    IF ConnectRejected(st) THEN Emit(st, "connection-error:invalid-state")
    ELSE [SpawnHelper(st, "connect") EXCEPT !.connectReceiver = FreeHelper(st)]

\* a variant of SendRejected that rejects no command
SendNeverRejected(st) == FALSE

\* the guard of TcpMessenger._send that rejects the command
SendRejected(st) == st.connState # CONNECTED \/ st.protocol = <<>>

\* TcpMessenger._send, but for the write
_send(st) == IF SendRejected(st) THEN Emit(st, "send-error:invalid-state") ELSE st

\* TcpMessenger._disconnect
_disconnect(st) == _closeConnection(st)

\* TcpMessenger._endOfStream
_endOfStream(st) == Emit(_closeConnection(st), "disconnected")

\* TcpMessenger._connected up to the negociation, for the event of helper h
_connected(st, h) ==
    LET rcv == IF st.hKind[h] = "connect" THEN st.connectReceiver ELSE st.acceptReceiver
        s1 == IF st.hKind[h] = "connect"
              THEN [st EXCEPT !.connectReceiver = 0]
              ELSE [st EXCEPT !.acceptReceiver = 0]
    IN  IF st.receiver # 0
        THEN [s1 EXCEPT !.hBox[rcv] = "close"]
        ELSE Emit([s1 EXCEPT !.connState = CONNECTED,
                             !.conn = h,
                             !.receiver = rcv,
                             !.localClosed = FALSE,
                             !.remoteClosed = FALSE],
                  "connected")

\* TcpMessenger._connected after the negociation returned name
Negociated(st, name) ==
    IF name # VERSION_1 THEN [st EXCEPT !.raised = "exception"]
    ELSE [Emit([st EXCEPT !.protocol = name, !.writer = TRUE], "protocol-negociated")
            EXCEPT !.hBox[st.receiver] = "receive"]

\* the finally clause of TcpMessenger._entry
Finally(st) == _closeServer(_closeConnection(st))

\* the messenger's fields after a handler, or a part of one, left them as res
Becomes(res, pcAfter) ==
    \E fin \in {IF res.raised = "-" THEN res ELSE Finally(res)} :
    /\ mPc' = IF res.raised = "-" THEN pcAfter ELSE "done"
    /\ mExit' = IF res.raised = "-" THEN mExit
                ELSE IF res.raised = "stop" THEN "None" ELSE res.raised
    /\ connState' = fin.connState
    /\ server' = fin.server
    /\ conn' = fin.conn
    /\ protocol' = fin.protocol
    /\ writer' = fin.writer
    /\ receiver' = fin.receiver
    /\ acceptReceiver' = fin.acceptReceiver
    /\ connectReceiver' = fin.connectReceiver
    /\ hKind' = fin.hKind
    /\ hPc' = fin.hPc
    /\ hBox' = fin.hBox
    /\ sock' = fin.sock
    /\ events' = fin.events
    /\ closed' = [local |-> fin.localClosed, remote |-> fin.remoteClosed]

\* the loop of the messenger takes the message m off its mailbox
Receives(tag) ==
    /\ mPc = "loop"
    /\ mbox # <<>>
    /\ Head(mbox).tag = tag
    /\ mbox' = Tail(mbox)

\* a handler that leaves the connection's wire alone
Quiet == UNCHANGED <<wire, negPc, negName, negError, supported, initiating, typed,
                     issued, forwarded>> /\ UNCHANGED tcpFrame

\* Process.spawn has a helper left to start in the model
CanSpawn == \E h \in Helpers : hPc[h] = "unused"

handle_listen ==
    /\ Receives("listen")
    /\ \E bound \in BOOLEAN : Becomes(_listen(TcpState, bound), "loop")
    /\ Quiet

handle_accept ==
    /\ Receives("accept")
    /\ (AcceptIgnored(TcpState) \/ AcceptRejected(TcpState) \/ CanSpawn)
    /\ Becomes(_accept(TcpState), "loop")
    /\ Quiet

handle_connect ==
    /\ Receives("connect")
    /\ (ConnectRejected(TcpState) \/ CanSpawn)
    /\ Becomes(_connect(TcpState), "loop")
    /\ Quiet

handle_disconnect ==
    /\ Receives("disconnect")
    /\ Becomes(_disconnect(TcpState), "loop")
    /\ Quiet

\* Command("stop"): the pattern's result is False, the loop ends
handle_stop ==
    /\ Receives("stop")
    /\ Becomes([TcpState EXCEPT !.raised = "stop"], "loop")
    /\ Quiet

handle_endOfStream ==
    /\ Receives("end-of-stream")
    /\ Becomes(_endOfStream(TcpState), "loop")
    /\ Quiet

\* TcpMessenger._send with state.writer.write(m[2])
handle_send ==
    /\ Receives("send")
    /\ Becomes(_send(TcpState), "loop")
    /\ IF SendRejected(TcpState)
       THEN UNCHANGED <<wire, typed>>
       ELSE /\ wire' = [wire EXCEPT !["local"] = @ \o formatMessage(TypedMessage)]
            /\ typed' = [typed EXCEPT !["local"] = @ + 1]
    /\ UNCHANGED <<negPc, negName, negError, supported, initiating, issued, forwarded>>
    /\ UNCHANGED tcpFrame

\* TcpMessenger._connected up to the first blocking read of the negociation
handle_connected ==
    /\ Receives("connected")
    /\ IF receiver # 0
       THEN /\ Becomes(_connected(TcpState, Head(mbox).h), "loop")
            /\ UNCHANGED <<wire, negPc, negName, negError, initiating, typed>>
       ELSE /\ Becomes(_connected(TcpState, Head(mbox).h), "negociating")
            /\ wire' = [side \in Sides |-> <<>>]
            /\ negPc' = [side \in Sides |-> "start"]
            /\ negName' = [side \in Sides |-> <<>>]
            /\ negError' = [side \in Sides |-> "-"]
            /\ initiating' = (hKind[Head(mbox).h] = "connect")
            /\ typed' = [side \in Sides |-> 0]
    /\ UNCHANGED <<supported, issued, forwarded>>
    /\ UNCHANGED tcpFrame

\* TcpMessenger._connected from negociateProtocol(stream, initiating) on: one
\* step of the negociation, and the rest of the handler when it has ended
connected_negociate ==
    /\ mPc = "negociating"
    /\ negociateStep("local")
    /\ CASE negPc'["local"] = "done" ->
                Becomes(Negociated(TcpState, negName'["local"]), "loop")
         [] negPc'["local"] = "failed" ->
                Becomes([TcpState EXCEPT !.raised = "exception"], "loop")
         [] OTHER -> Becomes(TcpState, "negociating")
    /\ UNCHANGED <<mbox, supported, initiating, typed, issued, forwarded>>
    /\ UNCHANGED tcpFrame

RECURSIVE SumOver(_, _)
SumOver(f, S) ==
    IF S = {} THEN 0
    ELSE LET x == CHOOSE y \in S : TRUE IN f[x] + SumOver(f, S \ {x})

\* the number of commands the requester has sent
Issued == SumOver(issued, CommandTags)

\* TcpMessenger.connect, listen, accept, disconnect, send and close, called by
\* the requester: the command is put in the messenger's mailbox
command(tag) ==
    /\ Issued < MaxCommands
    /\ mPc # "done"
    /\ mbox' = Append(mbox, Msg(tag, 0))
    /\ issued' = [issued EXCEPT ![tag] = @ + 1]
    /\ UNCHANGED <<mPc, mExit, connState, server, conn, protocol, writer, receiver,
                   acceptReceiver, connectReceiver, hKind, hPc, hBox, sock, events,
                   forwarded>>
    /\ UNCHANGED negVars
    /\ UNCHANGED tcpFrame

\* what a helper's step leaves alone
HelperFrame ==
    /\ UNCHANGED <<mPc, mExit, connState, server, conn, protocol, writer, receiver,
                   acceptReceiver, connectReceiver, hKind, issued>>
    /\ UNCHANGED <<negPc, negName, negError, closed, supported, initiating, typed>>
    /\ UNCHANGED tcpFrame

\* TcpMessenger._startSession up to its receive: the helper h has a connection
\* and tells the messenger, whose mailbox is closed if it has ended
Established(h) ==
    /\ sock' = [sock EXCEPT ![h] = "open"]
    /\ IF mPc = "done"
       THEN hPc' = [hPc EXCEPT ![h] = "done"] /\ UNCHANGED mbox
       ELSE hPc' = [hPc EXCEPT ![h] = "session"]
            /\ mbox' = Append(mbox, Msg("connected", h))
    /\ UNCHANGED <<hBox, events, forwarded, wire>>
    /\ HelperFrame

\* TcpMessenger._waitForConnect when conn.connect succeeds
waitForConnect_connected(h) ==
    /\ hKind[h] = "connect"
    /\ hPc[h] = "waiting"
    /\ Established(h)

\* TcpMessenger._waitForConnect when conn.connect raises socket.error
waitForConnect_error(h) ==
    /\ hKind[h] = "connect"
    /\ hPc[h] = "waiting"
    /\ hPc' = [hPc EXCEPT ![h] = "done"]
    /\ events' = [events EXCEPT !["connection-error:socket"] = @ + 1]
    /\ UNCHANGED <<mbox, hBox, sock, forwarded, wire>>
    /\ HelperFrame

\* TcpMessenger._waitForAccept when server.accept returns a connection
waitForAccept_accepted(h) ==
    /\ hKind[h] = "accept"
    /\ hPc[h] = "waiting"
    /\ server
    /\ Established(h)

\* TcpMessenger._waitForAccept when server.accept raises socket.error: EINVAL
\* after the server socket was shut down, another error while it is open
waitForAccept_error(h) ==
    /\ hKind[h] = "accept"
    /\ hPc[h] = "waiting"
    /\ hPc' = [hPc EXCEPT ![h] = "done"]
    /\ events' = IF server
                 THEN [events EXCEPT !["accept-error:socket"] = @ + 1]
                 ELSE events
    /\ UNCHANGED <<mbox, hBox, sock, forwarded, wire>>
    /\ HelperFrame

\* a variant of startSession_response that reads whatever the response is
startSession_anyResponse(h) ==
    /\ hPc[h] = "session"
    /\ hBox[h] # "-"
    /\ hBox' = [hBox EXCEPT ![h] = "-"]
    /\ hPc' = [hPc EXCEPT ![h] = "receiving"]
    /\ UNCHANGED <<mbox, sock, events, forwarded, wire>>
    /\ HelperFrame

\* TcpMessenger._startSession from its receive to the reader loop
startSession_response(h) ==
    /\ hPc[h] = "session"
    /\ hBox[h] # "-"
    /\ hBox' = [hBox EXCEPT ![h] = "-"]
    /\ IF hBox[h] = "receive"
       THEN hPc' = [hPc EXCEPT ![h] = "receiving"] /\ UNCHANGED sock
       ELSE hPc' = [hPc EXCEPT ![h] = "done"] /\ sock' = [sock EXCEPT ![h] = "closed"]
    /\ UNCHANGED <<mbox, events, forwarded, wire>>
    /\ HelperFrame

\* what reader.read() of the helper h finds: its socket was closed by the
\* messenger, or the next frame of the peer
ReaderSees(h) ==
    IF sock[h] # "open" THEN [status |-> "EOFError"]
    ELSE readMessage(wire["remote"], closed["remote"])

\* the reader loop of TcpMessenger._startSession forwards a message
startSession_forward(h) ==
    /\ hPc[h] = "receiving"
    /\ ReaderSees(h).status = "ok"
    /\ wire' = [wire EXCEPT !["remote"] = ReaderSees(h).rest]
    /\ forwarded' = forwarded + 1
    /\ UNCHANGED <<mbox, hPc, hBox, sock, events>>
    /\ HelperFrame

\* the reader loop of TcpMessenger._startSession ends and its finally clause
\* posts end-of-stream with try_send
startSession_endOfStream(h) ==
    /\ hPc[h] = "receiving"
    /\ ReaderSees(h).status \notin {"ok", "wait"}
    /\ hPc' = [hPc EXCEPT ![h] = "done"]
    /\ mbox' = IF mPc = "done" THEN mbox ELSE Append(mbox, Msg("end-of-stream", h))
    /\ UNCHANGED <<hBox, sock, events, forwarded, wire>>
    /\ HelperFrame

\* what a step of the peer leaves alone
RemoteFrame ==
    /\ UNCHANGED tcpVars
    /\ UNCHANGED <<supported, initiating>>
    /\ UNCHANGED tcpFrame

\* the peer is at the other end of the adopted connection
RemoteConnected == negPc["remote"] # "idle" /\ ~closed["remote"]

\* the peer's messenger negociates; it ends and closes the connection if that fails
remote_negociate ==
    /\ RemoteConnected
    /\ negociateStep("remote")
    /\ closed' = [closed EXCEPT !["remote"] = (negPc'["remote"] = "failed")]
    /\ UNCHANGED typed
    /\ RemoteFrame

\* a variant of RemoteMaySend without the check of the protocol
RemoteMaySendConnected == RemoteConnected

\* the guard of TcpMessenger._send at the peer: connected, protocol negociated
RemoteMaySend == RemoteConnected /\ negPc["remote"] = "done"

\* the peer's messenger handles a send command
remote_send ==
    /\ RemoteMaySend
    /\ typed["remote"] < MaxRemoteTyped
    /\ wire' = [wire EXCEPT !["remote"] = @ \o formatMessage(TypedMessage)]
    /\ typed' = [typed EXCEPT !["remote"] = @ + 1]
    /\ UNCHANGED <<negPc, negName, negError, closed>>
    /\ RemoteFrame

\* the peer closes the connection
remote_close ==
    /\ RemoteConnected
    /\ closed' = [closed EXCEPT !["remote"] = TRUE]
    /\ UNCHANGED <<wire, negPc, negName, negError, typed>>
    /\ RemoteFrame

TcpNext ==
    \/ \E tag \in CommandTags : command(tag)
    \/ handle_listen
    \/ handle_accept
    \/ handle_connect
    \/ handle_disconnect
    \/ handle_send
    \/ handle_stop
    \/ handle_connected
    \/ connected_negociate
    \/ handle_endOfStream
    \/ \E h \in Helpers : waitForConnect_connected(h)
    \/ \E h \in Helpers : waitForConnect_error(h)
    \/ \E h \in Helpers : waitForAccept_accepted(h)
    \/ \E h \in Helpers : waitForAccept_error(h)
    \/ \E h \in Helpers : startSession_response(h)
    \/ \E h \in Helpers : startSession_forward(h)
    \/ \E h \in Helpers : startSession_endOfStream(h)
    \/ remote_negociate
    \/ remote_send
    \/ remote_close

(***************************************************************************)
(* The matcher of a message loop (class PatternMatcher).  A message is the *)
(* sequence <<type, name, params...>> of a ProcessMessage; None is the     *)
(* element "None" and the type basestring the element "basestring".        *)
(***************************************************************************)
\* entries a matcher holds
MaxPatterns == 3
\* callables of the model, 0 for callable=None
Callables == 0..2
NoneValue == "None"
Basestring == "basestring"
\* the elements that are int objects (not instances of basestring)
IntObjects == {"int 5"}

Messages ==
    {<<t, n>> : t \in {"Command", "Event"}, n \in {"a", "b"}}
    \cup {<<"Event", "a", x>> : x \in {"x", NoneValue}}

\* the patterns of the model: None (matches anything) and message patterns
\* whose elements are literals, None or a type
PatternSet ==
    {[isNone |-> TRUE, items |-> <<>>]}
    \cup {[isNone |-> FALSE, items |-> i] :
            i \in {<<"Command", "a">>, <<NoneValue, "a", Basestring>>}}

\* a match of elements in which a type matches every object
matchElementUntyped(pattern, o) ==
    pattern = NoneValue \/ pattern = o \/ pattern = Basestring

\* match(pattern, o) on two elements: None and equal values match, a type
\* matches its instances and None, a string only itself
matchElement(pattern, o) ==
    IF pattern = NoneValue \/ pattern = o THEN TRUE
    ELSE IF pattern = Basestring THEN o \notin IntObjects
    ELSE FALSE

\* match(pattern, o) of a pattern and a message: sequences match when they
\* have the same length and match element by element
match(pattern, o) ==
    IF pattern.isNone THEN TRUE
    ELSE IF Len(pattern.items) # Len(o) THEN FALSE
    ELSE \A i \in 1..Len(o) : matchElement(pattern.items[i], o[i])

\* a scan in order of addition
inOrder(seq) == seq

\* reversed(self.patterns)
reversed(seq) == [i \in 1..Len(seq) |-> seq[Len(seq) + 1 - i]]

\* a scan that takes a message no entry matches for a stop
RECURSIVE firstMatchOrStop(_, _)
firstMatchOrStop(entries, m) ==
    IF entries = <<>>
    THEN [invoked |-> <<>>, result |-> "False"]
    ELSE IF match(Head(entries).pattern, m)
         THEN [invoked |-> IF Head(entries).callable # 0
                           THEN <<Head(entries).callable>> ELSE <<>>,
               result |-> IF Head(entries).result THEN "True" ELSE "False"]
         ELSE firstMatchOrStop(Tail(entries), m)

\* the loop of PatternMatcher.match over the entries in the given order
RECURSIVE firstMatch(_, _)
firstMatch(entries, m) ==
    IF entries = <<>>
    THEN [invoked |-> <<>>, result |-> "NoMatchException"]
    ELSE IF match(Head(entries).pattern, m)
         THEN [invoked |-> IF Head(entries).callable # 0
                           THEN <<Head(entries).callable>> ELSE <<>>,
               result |-> IF Head(entries).result THEN "True" ELSE "False"]
         ELSE firstMatch(Tail(entries), m)

\* list.remove: the list without its first item equal to e
RECURSIVE listRemove(_, _)
listRemove(seq, e) ==
    IF seq = <<>> THEN <<>>
    ELSE IF Head(seq) = e THEN Tail(seq)
    ELSE <<Head(seq)>> \o listRemove(Tail(seq), e)

InitPatternMatcher ==
    /\ patterns = <<>>
    /\ invoked = <<>>
    /\ matchResult = "-"

\* PatternMatcher.addPattern
addPattern(pattern, callable, result) ==
    /\ UNCHANGED pmFrame
    /\ Len(patterns) < MaxPatterns
    /\ patterns' = Append(patterns,
                          [pattern |-> pattern, callable |-> callable, result |-> result])
    /\ UNCHANGED <<invoked, matchResult>>

\* PatternMatcher.removePattern of an entry the list holds
removePattern(pattern, callable, result) ==
    /\ UNCHANGED pmFrame
    /\ \E i \in 1..Len(patterns) :
          patterns[i] = [pattern |-> pattern, callable |-> callable, result |-> result]
    /\ patterns' = listRemove(patterns,
                              [pattern |-> pattern, callable |-> callable, result |-> result])
    /\ UNCHANGED <<invoked, matchResult>>

\* PatternMatcher.match(m)
PatternMatcher_match(m) ==
    /\ UNCHANGED pmFrame
    /\ invoked' = firstMatch(reversed(patterns), m).invoked
    /\ matchResult' = firstMatch(reversed(patterns), m).result
    /\ UNCHANGED patterns

MatcherNext ==
    \/ \E pattern \in PatternSet : \E callable \in Callables : \E result \in BOOLEAN :
          addPattern(pattern, callable, result)
    \/ \E i \in 1..Len(patterns) :
          removePattern(patterns[i].pattern, patterns[i].callable, patterns[i].result)
    \/ \E m \in Messages : PatternMatcher_match(m)

(***************************************************************************)
(* SpecLoop: process 1 runs the message loop of ProcessBase.run with a     *)
(* matcher; process 2, linked to it, may trap exits.  It starts as         *)
(* SpecLinked does.                                                        *)
(***************************************************************************)
\* the process whose loop it is
LoopPid == 1

\* ProcessBase.handleMessage(m, state) on the message m the loop received:
\* matcher.match(m, state) raises NoMatchException, or returns False and
\* Process.exit() is called, or returns True and the loop goes on
handleMessage(self, m) ==
    /\ self = LoopPid
    /\ pc[self] = "running"
    /\ lock = NoPid
    /\ invoked' = firstMatch(reversed(patterns), m).invoked
    /\ matchResult' = firstMatch(reversed(patterns), m).result
    /\ UNCHANGED patterns
    /\ CASE matchResult' = "NoMatchException" -> BodyEnds(self, FALSE, "no-match")
         [] matchResult' = "False" -> BodyEnds(self, TRUE, "None")
         [] OTHER -> UNCHANGED <<pc, lock, gracefulExit, exitReason, todo, trapAtExit>>
    /\ UNCHANGED <<registry, nextID, queue, isOpen, linked, trapExit, current,
                   sentCount, lastGot, exitSent, killedLog>>
    /\ UNCHANGED <<trVars, svcVars, negVars, tcpVars, frVars, ntVars>>

LoopNext ==
    \/ \E items \in {<<"Command", "a">>, <<NoneValue, "a", Basestring>>} :
          \E result \in BOOLEAN :
             addPattern([isNone |-> FALSE, items |-> items], 1, result)
    \/ \E m \in Messages : handleMessage(LoopPid, m)
    \/ \E self \in Pids \ {LoopPid} : trap_exit(self)
    \/ \E pid \in Pids : \E flushQueue \in BOOLEAN : kill(pid, flushQueue)
    \/ \E self \in Pids : \E linkedPid \in Pids : entry_notify(self, linkedPid)
    \/ \E self \in Pids : remove_current_process(self)

(***************************************************************************)
(* One frame written by formatMessage and read back by readMessage from a  *)
(* stream that carries other bytes after it.                               *)
(***************************************************************************)
\* length of the short payloads, enumerated over FrameChars
MaxPayload == 3
FrameChars == {"a", "1", " ", "\n"}

\* payloads whose frames have the lengths 0x0010, 0x00ff, 0x0100 and 0x1000
LongPayloads == {[i \in 1..n |-> "a"] : n \in {13, 252, 253, 4093}}

Payloads ==
    UNION {[1..n -> FrameChars] : n \in 0..MaxPayload} \cup LongPayloads

\* what may follow a frame on the stream: nothing, the next frame, stray bytes
Tails == {<<>>, writeProtocol(VERSION_1), <<" ">>, <<"0", "0">>}

InitNoFrame ==
    /\ frPayload = <<>>
    /\ frTail = <<>>
    /\ frBuf = <<>>
    /\ frResult = [status |-> "-"]

\* self.asyncWrite(self.formatMessage(m)), then the peer writes on
frame_write(m, tail) ==
    /\ UNCHANGED frFrame
    /\ frPayload' = m
    /\ frTail' = tail
    /\ frBuf' = formatMessage(m) \o tail
    /\ frResult' = [status |-> "-"]

\* Negociator.readMessage once the frame has arrived
frame_read ==
    /\ UNCHANGED frFrame
    /\ frBuf # <<>>
    /\ frResult.status = "-"
    /\ frResult' = readMessage(frBuf, FALSE)
    /\ frBuf' = IF readMessage(frBuf, FALSE).status = "ok"
                THEN readMessage(frBuf, FALSE).rest ELSE frBuf
    /\ UNCHANGED <<frPayload, frTail>>

FrameNext ==
    \/ \E m \in Payloads : \E tail \in Tails : frame_write(m, tail)
    \/ frame_read

(***************************************************************************)
(* Spec: the life of processes.  Processes are spawned, linked, trap       *)
(* exits, are killed and end for every cause; the mailbox traffic is the   *)
(* exit events of the runtime.                                             *)
(***************************************************************************)
RuntimeNext ==
    \/ spawn
    \/ \E self \in Pids : spawn_linked(self)
    \/ \E self \in Pids : trap_exit(self)
    \/ \E self \in Pids : body_return(self)
    \/ \E self \in Pids : \E reason \in {"None", "user"} : exit(self, reason)
    \/ \E self \in Pids : no_match(self)
    \/ \E self \in Pids : exception(self)
    \/ \E self \in Pids : receive(self)
    \/ \E pid \in Pids : \E flushQueue \in BOOLEAN : kill(pid, flushQueue)
    \/ \E self \in Pids : \E linkedPid \in Pids : entry_notify(self, linkedPid)
    \/ \E self \in Pids : remove_current_process(self)

(***************************************************************************)
(* SpecMailbox: the user messages.  It starts after MailboxProcs calls of  *)
(* Process.spawn; the processes send to each other and to themselves,      *)
(* receive and are killed.                                                 *)
(***************************************************************************)
InitMailbox ==
    /\ registry = 1..MailboxProcs
    /\ nextID = MailboxProcs + 1
    /\ queue = [p \in Pids |-> <<>>]
    /\ isOpen = [p \in Pids |-> TRUE]
    /\ linked = [p \in Pids |-> {}]
    /\ trapExit = [p \in Pids |-> FALSE]
    /\ pc = [p \in Pids |-> IF p <= MailboxProcs THEN "running" ELSE "unborn"]
    /\ current = [p \in Pids |-> p <= MailboxProcs]
    /\ lock = NoPid
    /\ gracefulExit = [p \in Pids |-> FALSE]
    /\ exitReason = [p \in Pids |-> "-"]
    /\ todo = [p \in Pids |-> {}]
    /\ sentCount = [p \in Pids |-> 0]
    /\ lastGot = [c \in Pids |-> [p \in Pids |-> 0]]
    /\ exitSent = [a \in Pids |-> [b \in Pids |-> 0]]
    /\ trapAtExit = [p \in Pids |-> {}]
    /\ killedLog = [p \in Pids |-> 0]

MailboxNext ==
    \/ \E self \in Pids : \E pid \in Pids : send(self, pid)
    \/ \E self \in Pids : \E pid \in Pids : try_send(self, pid)
    \/ \E self \in Pids : receive(self)
    \/ \E pid \in Pids : \E flushQueue \in BOOLEAN : kill(pid, flushQueue)
    \/ \E self \in Pids : remove_current_process(self)

(***************************************************************************)
(* SpecLinked: two linked processes.  It starts after Process.spawn and    *)
(* one spawn_linked by the first process; the two trap exits or not, send  *)
(* to each other, receive and end.                                         *)
(***************************************************************************)
InitLinked ==
    /\ registry = {1, 2}
    /\ nextID = 3
    /\ queue = [p \in Pids |-> <<>>]
    /\ isOpen = [p \in Pids |-> TRUE]
    /\ linked = [p \in Pids |-> IF p = 1 THEN {2} ELSE IF p = 2 THEN {1} ELSE {}]
    /\ trapExit = [p \in Pids |-> FALSE]
    /\ pc = [p \in Pids |-> IF p <= 2 THEN "running" ELSE "unborn"]
    /\ current = [p \in Pids |-> p <= 2]
    /\ lock = NoPid
    /\ gracefulExit = [p \in Pids |-> FALSE]
    /\ exitReason = [p \in Pids |-> "-"]
    /\ todo = [p \in Pids |-> {}]
    /\ sentCount = [p \in Pids |-> 0]
    /\ lastGot = [c \in Pids |-> [p \in Pids |-> 0]]
    /\ exitSent = [a \in Pids |-> [b \in Pids |-> 0]]
    /\ trapAtExit = [p \in Pids |-> {}]
    /\ killedLog = [p \in Pids |-> 0]

LinkedNext ==
    \/ \E self \in Pids : trap_exit(self)
    \/ \E self \in Pids : \E pid \in Pids : send(self, pid)
    \/ \E self \in Pids : receive(self)
    \/ \E self \in Pids : body_return(self)
    \/ \E self \in Pids : exception(self)
    \/ \E self \in Pids : \E linkedPid \in Pids : entry_notify(self, linkedPid)
    \/ \E self \in Pids : remove_current_process(self)

(***************************************************************************)
(* The notifier (class ProcessNotifier) and the event sender built on it   *)
(* (class EventSender).  __call__ copies the set of suscribers under the   *)
(* notifier's lock and sends to each PID of the copy in turn; one action   *)
(* is one turn of that loop, so that kills, exits and receives of the      *)
(* other processes interleave with it.  The order in which a set is        *)
(* iterated is not specified: any PID not yet visited may come next.       *)
(***************************************************************************)
\* calls of the notifier in a behaviour
MaxCalls == 1

\* the process that calls the notifier
NotifierCaller == 1

\* the declared pattern of EventSender("a", basestring)
SenderPattern == [isNone |-> FALSE, items |-> <<"Event", "a", Basestring>>]

\* the argument lists the sender is called with: none, a string, None, an
\* int, two strings
SenderArgs == {<<>>, <<"x">>, <<NoneValue>>, <<"int 5">>, <<"x", "x">>}

InitNotifier ==
    /\ suscribers = {}
    /\ ntPc = "idle"
    /\ ntCopy = {}
    /\ ntTodo = {}
    /\ ntOrder = <<>>
    /\ ntFailed = {}
    /\ ntSeq = 0
    /\ ntEvent = <<>>
    /\ ntRaised = "-"

\* ProcessNotifier.suscribe(pid)
suscribe(pid) ==
    /\ UNCHANGED ntFrame
    /\ suscribers' = suscribers \cup {pid}
    /\ UNCHANGED <<ntPc, ntCopy, ntTodo, ntOrder, ntFailed, ntSeq, ntEvent, ntRaised>>
    /\ UNCHANGED rtVars

\* ProcessNotifier.unsuscribe(pid) of a suscriber
unsuscribe(pid) ==
    /\ UNCHANGED ntFrame
    /\ pid \in suscribers
    /\ suscribers' = suscribers \ {pid}
    /\ UNCHANGED <<ntPc, ntCopy, ntTodo, ntOrder, ntFailed, ntSeq, ntEvent, ntRaised>>
    /\ UNCHANGED rtVars

\* Process.send(pid, m) by self as the notifier calls it: the PID may be one
\* that Process._processes does not hold ("Invalid PID")
NotifySendOutcome(self, pid) ==
    IF ~isOpen[self] THEN "ProcessKilled"
    ELSE IF pid \notin registry THEN "Invalid PID"
    ELSE SendOutcome(self, pid)

\* a handler that catches ProcessExited only, as Process.try_send does
SwallowedIfExited(outcome) == outcome = "ProcessExited"

\* "except Exception: pass": ProcessKilled, ProcessExited and the Exception
\* of an invalid PID are all subclasses of Exception
Swallowed(outcome) == outcome \in {"ProcessKilled", "ProcessExited", "Invalid PID"}

\* ProcessNotifier.__call__(m) up to the loop: the copy of the suscribers
call_(self, event) ==
    /\ UNCHANGED ntFrame
    /\ self = NotifierCaller
    /\ pc[self] = "running"
    /\ ntPc = "idle"
    /\ ntSeq < MaxCalls
    /\ ntSeq' = ntSeq + 1
    /\ ntCopy' = suscribers
    /\ ntTodo' = suscribers
    /\ ntOrder' = <<>>
    /\ ntFailed' = {}
    /\ ntEvent' = event
    /\ ntRaised' = "-"
    /\ ntPc' = IF suscribers = {} THEN "idle" ELSE "sending"
    /\ UNCHANGED suscribers
    /\ UNCHANGED rtVars

\* ProcessNotifier.__call__(m) with a plain message
notify(self) == call_(self, <<>>)

\* EventSender.__call__(*args)
EventSender_call(self, args) ==
    LET event == <<"Event", SenderPattern.items[2]>> \o args IN
    IF match(SenderPattern, event)
    THEN call_(self, event)
    ELSE /\ UNCHANGED ntFrame
         /\ self = NotifierCaller
         /\ pc[self] = "running"
         /\ ntPc = "idle"
         /\ ntSeq < MaxCalls
         /\ ntSeq' = ntSeq + 1
         /\ ntCopy' = {}
         /\ ntTodo' = {}
         /\ ntOrder' = <<>>
         /\ ntFailed' = {}
         /\ ntEvent' = event
         /\ ntRaised' = "TypeError"
         /\ UNCHANGED <<ntPc, suscribers>>
         /\ UNCHANGED rtVars

\* one turn of "for pid in suscribers: try: Process.send(pid, m)"
notify_send(self, pid) ==
    LET outcome == NotifySendOutcome(self, pid) IN
    /\ UNCHANGED ntFrame
    /\ self = NotifierCaller
    /\ pc[self] = "running"
    /\ ntPc = "sending"
    /\ pid \in ntTodo
    /\ outcome # "blocked"
    /\ outcome \in {"ok", "ProcessExited"} => lock = NoPid
    /\ queue' = IF outcome = "ok"
                THEN [queue EXCEPT ![pid] = QueuePut(@, UserMsg(self, ntSeq))]
                ELSE queue
    /\ ntOrder' = Append(ntOrder, pid)
    /\ ntFailed' = IF outcome = "ok" THEN ntFailed ELSE ntFailed \cup {pid}
    /\ IF outcome = "ok" \/ Swallowed(outcome)
       THEN /\ ntTodo' = ntTodo \ {pid}
            /\ ntPc' = IF ntTodo \ {pid} = {} THEN "idle" ELSE "sending"
            /\ UNCHANGED ntRaised
       ELSE /\ ntPc' = "idle"
            /\ ntRaised' = outcome
            /\ UNCHANGED ntTodo
    /\ UNCHANGED <<suscribers, ntCopy, ntSeq, ntEvent>>
    /\ UNCHANGED <<registry, nextID, isOpen, linked, trapExit, pc, current, lock,
                   gracefulExit, exitReason, todo, sentCount, lastGot, exitSent,
                   trapAtExit, killedLog>>

\* a process that is not inside a call of the notifier receives
idle_receive(self) ==
    /\ ntPc = "idle" \/ self # NotifierCaller
    /\ receive(self)

\* the body of such a process returns
idle_return(self) ==
    /\ ntPc = "idle" \/ self # NotifierCaller
    /\ body_return(self)

(***************************************************************************)
(* SpecNotifier: it starts as SpecMailbox does; process 1 calls the        *)
(* notifier while processes suscribe, receive, are killed and end.         *)
(***************************************************************************)
NotifierNext ==
    \/ \E pid \in Pids : suscribe(pid)
    \/ \E pid \in Pids : unsuscribe(pid)
    \/ notify(NotifierCaller)
    \/ \E args \in SenderArgs : EventSender_call(NotifierCaller, args)
    \/ \E pid \in Pids : notify_send(NotifierCaller, pid)
    \/ \E self \in Pids : idle_receive(self)
    \/ \E self \in Pids : idle_return(self)
    \/ \E pid \in Pids : \E flushQueue \in BOOLEAN : kill(pid, flushQueue)
    \/ \E self \in Pids : remove_current_process(self)

(***************************************************************************)
(* SpecChain: the processes linked by calls of spawn_linked, as a chain    *)
(* (each process spawned the next) or a star (1 spawned the others); none  *)
(* traps exits and each waits in receive with an empty mailbox.  Any of    *)
(* them may be killed.                                                     *)
(***************************************************************************)
\* the link sets two calls of spawn_linked leave
LinkTrees ==
    {[p \in Pids |-> {p - 1, p + 1} \cap Pids],
     [p \in Pids |-> IF p = 1 THEN Pids \ {1} ELSE {1}]}

InitChain ==
    /\ registry = Pids
    /\ nextID = MaxProcs + 1
    /\ queue = [p \in Pids |-> <<>>]
    /\ isOpen = [p \in Pids |-> TRUE]
    /\ linked \in LinkTrees
    /\ trapExit = [p \in Pids |-> FALSE]
    /\ pc = [p \in Pids |-> "running"]
    /\ current = [p \in Pids |-> TRUE]
    /\ lock = NoPid
    /\ gracefulExit = [p \in Pids |-> FALSE]
    /\ exitReason = [p \in Pids |-> "-"]
    /\ todo = [p \in Pids |-> {}]
    /\ sentCount = [p \in Pids |-> 0]
    /\ lastGot = [c \in Pids |-> [p \in Pids |-> 0]]
    /\ exitSent = [a \in Pids |-> [b \in Pids |-> 0]]
    /\ trapAtExit = [p \in Pids |-> {}]
    /\ killedLog = [p \in Pids |-> 0]

ChainNext ==
    \/ \E pid \in Pids : \E flushQueue \in BOOLEAN : kill(pid, flushQueue)
    \/ \E self \in Pids : receive(self)
    \/ \E self \in Pids : \E linkedPid \in Pids : entry_notify(self, linkedPid)
    \/ \E self \in Pids : remove_current_process(self)

vars == <<rtVars, trVars, svcVars, negVars, tcpVars, pmVars, frVars, ntVars>>

Init ==
    InitRuntime /\ InitTransfer /\ InitService /\ InitNoConnection /\ InitMessenger
    /\ InitPatternMatcher /\ InitNoFrame /\ InitNotifier
Next == RuntimeNext
Spec == Init /\ [][Next]_vars

MailboxInit ==
    InitMailbox /\ InitTransfer /\ InitService /\ InitNoConnection /\ InitMessenger
    /\ InitPatternMatcher /\ InitNoFrame /\ InitNotifier
SpecMailbox == MailboxInit /\ [][MailboxNext]_vars

LinkedInit ==
    InitLinked /\ InitTransfer /\ InitService /\ InitNoConnection /\ InitMessenger
    /\ InitPatternMatcher /\ InitNoFrame /\ InitNotifier
SpecLinked == LinkedInit /\ [][LinkedNext]_vars

SpecLoop == LinkedInit /\ [][LoopNext]_vars

ChainInit ==
    InitChain /\ InitTransfer /\ InitService /\ InitNoConnection /\ InitMessenger
    /\ InitPatternMatcher /\ InitNoFrame /\ InitNotifier
SpecChain == ChainInit /\ [][ChainNext]_vars

\* the threads of the processes are scheduled: a receive that can return or
\* raise does, and a thread in the finally block of Process._entry goes on
ProcessesRun ==
    \A self \in Pids :
        /\ WF_vars(receive(self))
        /\ WF_vars(remove_current_process(self))
        /\ \A linkedPid \in Pids : WF_vars(entry_notify(self, linkedPid))

SpecChainFair == ChainInit /\ [][ChainNext]_vars /\ ProcessesRun

NotifierInit ==
    InitMailbox /\ InitTransfer /\ InitService /\ InitNoConnection /\ InitMessenger
    /\ InitPatternMatcher /\ InitNoFrame /\ InitNotifier
SpecNotifier == NotifierInit /\ [][NotifierNext]_vars

SpecTransfer == Init /\ [][TransferNext]_vars

SpecService == Init /\ [][ServiceNext]_vars

NegociationInit ==
    InitRuntime /\ InitTransfer /\ InitService /\ InitNegociation /\ InitMessenger
    /\ InitPatternMatcher /\ InitNoFrame /\ InitNotifier
SpecNegociation == NegociationInit /\ [][NegociationNext]_vars

ResponderInit ==
    InitRuntime /\ InitTransfer /\ InitService /\ InitResponder /\ InitMessenger
    /\ InitPatternMatcher /\ InitNoFrame /\ InitNotifier
SpecResponder == ResponderInit /\ [][ResponderNext]_vars

TcpInit ==
    InitRuntime /\ InitTransfer /\ InitService /\ InitTcp
    /\ InitPatternMatcher /\ InitNoFrame /\ InitNotifier
SpecTcp == TcpInit /\ [][TcpNext]_vars

\* the threads of the messenger and of its helpers are scheduled: a handler
\* that can run does run.  Nothing is assumed of the peer, of the network
\* (connect and accept may never return) or of the requester.
MessengerRuns ==
    /\ WF_vars(handle_listen) /\ WF_vars(handle_accept) /\ WF_vars(handle_connect)
    /\ WF_vars(handle_disconnect) /\ WF_vars(handle_send) /\ WF_vars(handle_stop)
    /\ WF_vars(handle_connected) /\ WF_vars(connected_negociate)
    /\ WF_vars(handle_endOfStream)
    /\ \A h \in Helpers :
          /\ WF_vars(startSession_response(h))
          /\ WF_vars(startSession_forward(h))
          /\ WF_vars(startSession_endOfStream(h))

SpecTcpFair == TcpInit /\ [][TcpNext]_vars /\ MessengerRuns

SpecMatcher == Init /\ [][MatcherNext]_vars

SpecFrame == Init /\ [][FrameNext]_vars

\* each side's thread keeps running: a step of negociate() that can be taken is taken
SpecNegociationFair ==
    NegociationInit /\ [][NegociationNext]_vars /\ \A side \in Sides : WF_vars(negociate(side))


(***************************************************************************)
(* Claims about the process runtime.                                       *)
(***************************************************************************)

\* C2 (as claimed): when a process a has terminated, every linked peer b
\* that trapped exits when a's body ended and whose mailbox is open was
\* sent Event("exit", a, reason) exactly once, whatever the reason
\* (None, killed, no-match, exception, a user reason).
C2_TrapExitDelivered ==
    \A a \in Pids : \A b \in Pids :
        (pc[a] = "done" /\ b \in trapAtExit[a] /\ isOpen[b])
            => exitSent[a][b] = 1

\* C3 (as claimed): when a process a that was killed has terminated, the
\* mailbox of every linked peer b that does not trap exits is closed.
C3_KilledClosesLinkedPeer ==
    \A a \in Pids : \A b \in Pids :
        (pc[a] = "done" /\ exitReason[a] = "killed" /\ b \in linked[a]
            /\ ~trapExit[b])
            => ~isOpen[b]

\* C4: FIFO mailbox.  The user messages of one producer p are buffered in
\* a mailbox c in the order p sent them, and everything of p still buffered
\* was sent after the last message of p that c received: c receives the
\* messages of p in send order, whatever other producers put in between.
C4_FifoPerProducer ==
    \A c \in Pids :
        /\ \A i \in 1..Len(queue[c]) : \A j \in 1..Len(queue[c]) :
               (i < j /\ queue[c][i].kind = "msg" /\ queue[c][j].kind = "msg"
                  /\ queue[c][i].from = queue[c][j].from)
               => queue[c][i].k < queue[c][j].k
        /\ \A i \in 1..Len(queue[c]) :
               queue[c][i].kind = "msg"
               => queue[c][i].k > lastGot[c][queue[c][i].from]

\* C4 witness: c has received the second message of a producer p after
\* messages of another producer q arrived in between.
C4_Witness ==
    \E c \in Pids : \E p \in Pids : \E q \in Pids :
        /\ p # q
        /\ lastGot[c][p] = 2
        /\ lastGot[c][q] >= 1

(***************************************************************************)
(* The download file as the writes left it.                                *)
(***************************************************************************)
\* the writes that cover byte p of the download file
WritesAt(p) == {i \in 1..Len(disk) : disk[i].at <= p /\ p < disk[i].at + disk[i].len}

\* byte p of the download file: <<block, index in the block>> of the sender's
\* byte stored there by the last write that covers p, <<-1, -1>> for a hole
DiskByte(p) ==
    IF WritesAt(p) = {} THEN <<-1, -1>>
    ELSE LET i == CHOOSE k \in WritesAt(p) : \A j \in WritesAt(p) : j <= k
         IN  <<disk[i].blockID, p - disk[i].at>>

\* byte p of the sender's file
SenderByte(p) == <<p \div BlockSize, p % BlockSize>>

\* the length of the download file
DiskLen ==
    IF disk = <<>> THEN 0
    ELSE LET ends == {disk[i].at + disk[i].len : i \in 1..Len(disk)}
         IN  CHOOSE e \in ends : \A f \in ends : f <= e

\* the first and last byte of every run of bytes one write or one block owns
SamplePoints ==
    LET edges == UNION {{disk[i].at - 1, disk[i].at, disk[i].at + disk[i].len - 1,
                         disk[i].at + disk[i].len} : i \in 1..Len(disk)}
                 \cup UNION {{b * BlockSize, b * BlockSize + BlockSize - 1} :
                             b \in 0..MaxBlocks}
    IN  {p \in edges : 0 <= p /\ p < fileSize} \cup {p \in {fileSize - 1} : p >= 0}

FileEqualsSender ==
    /\ DiskLen = fileSize
    /\ \A p \in SamplePoints : DiskByte(p) = SenderByte(p)

\* every block 0..N-1 was delivered by block-received exactly once, nothing else was
EachBlockDeliveredOnce ==
    /\ direction = DOWNLOAD
    /\ totalBlocks >= 1
    /\ \A b \in BlockIDs :
           delivered[b] = IF 0 <= b /\ b < totalBlocks THEN 1 ELSE 0

(***************************************************************************)
(* C1: on a download whose blocks 0..N-1 are each delivered exactly once,  *)
(* in any arrival order, every payload is written at blockID * blockSize   *)
(* and the final file content equals the sender's file.                    *)
(***************************************************************************)
C1_AnyOrderFileCorrect ==
    EachBlockDeliveredOnce =>
        /\ \A i \in 1..Len(disk) : disk[i].at = disk[i].blockID * BlockSize
        /\ FileEqualsSender

OnlyCommonIsV1 ==
    /\ \A side \in Sides : InList(VERSION_1, supported[side])
    /\ \E side \in Sides : ~InList(VERSION_2, supported[side])

BothReturned(name) ==
    \A side \in Sides : negPc[side] = "done" /\ negName[side] = name /\ negError[side] = "-"

C6_NoFailure ==
    OnlyCommonIsV1 =>
        \A side \in Sides :
            /\ negPc[side] # "failed"
            /\ negPc[side] = "done" => negName[side] = VERSION_1

Handles(tag) ==
    /\ mPc = "loop"
    /\ mbox # <<>>
    /\ Head(mbox).tag = tag
    /\ mbox' = Tail(mbox)

\* the step starts no helper
NoHelperSpawned == hPc' = hPc /\ hKind' = hKind

\* the step leaves the established connection as it is
ConnectionUnchanged ==
    UNCHANGED <<connState, conn, sock, writer, receiver, protocol, wire, closed>>

\* the step sends the event tag once, and no other event
Sends(tag) == events' = [events EXCEPT ![tag] = @ + 1]

\* an accept (connect) helper is pending: started, its connection not adopted yet
AcceptPending == acceptReceiver # 0 /\ hPc[acceptReceiver] \in {"waiting", "session"}
ConnectPending == connectReceiver # 0 /\ hPc[connectReceiver] \in {"waiting", "session"}

(***************************************************************************)
(* C7, as stated: no side writes a typed message on a connection before    *)
(* both sides have completed the handshake.                                *)
(***************************************************************************)
C7_TypedAfterBothHandshakes ==
    [][\A side \in Sides :
          typed'[side] > typed[side] =>
              negPc["local"] = "done" /\ negPc["remote"] = "done"]_vars

(***************************************************************************)
(* C7, amended: a side writes a typed message on a connection only after   *)
(* it has itself completed the handshake; the messenger writes one only    *)
(* when it handles a send command with the protocol negociated, and a send *)
(* command handled in any other state writes nothing.                      *)
(***************************************************************************)
C7_TypedAfterOwnHandshake ==
    [][/\ \A side \in Sides : typed'[side] > typed[side] => negPc[side] = "done"
       /\ typed'["local"] > typed["local"] =>
              Handles("send") /\ protocol = VERSION_1 /\ connState = CONNECTED
       /\ (Handles("send") /\ (connState # CONNECTED \/ protocol = <<>>)) =>
              UNCHANGED <<wire, typed>> /\ Sends("send-error:invalid-state")]_vars

\* the initiator has written a typed message and the responder, its peer, has
\* not read the echo yet
C7_Witness ==
    /\ initiating
    /\ typed["local"] >= 1
    /\ negPc["remote"] = "readEcho"

(***************************************************************************)
(* C8: when the negociation on a new connection fails, the messenger stays *)
(* alive in the DISCONNECTED state with the connection closed, and the     *)
(* requester was sent a connection-error event.                            *)
(***************************************************************************)
C8_NegociationFailureNotFatal ==
    negPc["local"] = "failed" =>
        /\ mPc # "done"
        /\ connState = DISCONNECTED
        /\ conn = 0
        /\ events["connection-error:invalid-state"] + events["connection-error:socket"] >= 1

C10_DuplicateRejectedWithError ==
    [][/\ (Handles("accept") /\ AcceptPending) =>
              Sends("accept-error:invalid-state") /\ NoHelperSpawned
       /\ (Handles("connect") /\ ConnectPending) =>
              Sends("connection-error:invalid-state") /\ NoHelperSpawned]_vars

(***************************************************************************)
(* C10, amended: while a connect helper is pending a further connect       *)
(* command is rejected with connection-error 'invalid-state'; while an     *)
(* accept helper is pending a further accept command is ignored, no event  *)
(* is sent; in both cases no second helper is started.                     *)
(***************************************************************************)
C10_DuplicateWhilePending ==
    [][/\ (Handles("accept") /\ AcceptPending) =>
              UNCHANGED events /\ NoHelperSpawned /\ UNCHANGED acceptReceiver
       /\ (Handles("connect") /\ ConnectPending) =>
              /\ Sends("connection-error:invalid-state")
              /\ NoHelperSpawned
              /\ UNCHANGED connectReceiver]_vars

\* two accept commands were handled, the first started the helper that is still
\* waiting, the second left no trace
C10_Witness ==
    /\ issued["accept"] = 2
    /\ mbox = <<>>
    /\ mPc = "loop"
    /\ AcceptPending
    /\ hPc[acceptReceiver] = "waiting"
    /\ \A h \in Helpers : h # acceptReceiver => hPc[h] = "unused"
    /\ events["accept-error:invalid-state"] = 0

(***************************************************************************)
(* Claims about the pattern matcher.                                       *)
(***************************************************************************)

\* the positions of the entries whose pattern matches m; addPattern appends,
\* so a higher position was added later
Matching(m) == {i \in 1..Len(patterns) : match(patterns[i].pattern, m)}

MostRecent(m) == CHOOSE i \in Matching(m) : \A j \in Matching(m) : j <= i

\* C11: when a message matches several registered patterns, match() invokes
\* the handler of the most recently added matching pattern only (nothing
\* when that entry has no callable) and returns that entry's continue flag;
\* the handlers of the earlier matching patterns are not invoked.
C11_MostRecentPatternWins ==
    [][\A m \in Messages :
          (PatternMatcher_match(m) /\ Matching(m) # {}) =>
              /\ invoked' = IF patterns[MostRecent(m)].callable # 0
                            THEN <<patterns[MostRecent(m)].callable>> ELSE <<>>
              /\ matchResult' = IF patterns[MostRecent(m)].result THEN "True" ELSE "False"
              /\ Len(invoked') <= 1]_vars

\* a message matched by two entries with different callables and different
\* flags has been matched, and the later entry's callable ran
C11_Witness ==
    \E m \in Messages :
        /\ Cardinality(Matching(m)) >= 2
        /\ \E i \in Matching(m) :
              /\ i # MostRecent(m)
              /\ patterns[i].callable # 0
              /\ patterns[MostRecent(m)].callable # 0
              /\ patterns[i].callable # patterns[MostRecent(m)].callable
              /\ patterns[i].result # patterns[MostRecent(m)].result
        /\ invoked = <<patterns[MostRecent(m)].callable>>
        /\ matchResult = IF patterns[MostRecent(m)].result THEN "True" ELSE "False"

(***************************************************************************)
(* Claims about the mailbox's closed state and Process.send.               *)
(***************************************************************************)

\* the step closes the mailbox of b: Process.kill(b) or the loop of a dying
\* process reaching its non-trapping peer b
ClosesMailbox(b) ==
    \/ pc' = pc /\ lock = NoPid /\ \E flushQueue \in BOOLEAN : kill(b, flushQueue)
    \/ \E a \in Pids :
          b \in todo[a] /\ ~trapExit[b] /\ ~gracefulExit[a] /\ entry_notify(a, b)
    \/ pc[b] = "exiting" /\ pc'[b] = "done" /\ remove_current_process(b)

\* C12: the close that finds the mailbox open performs the transition (and
\* only then is the kill of a linked peer logged); a close of a closed
\* mailbox changes nothing, so a peer is logged as killed at most once
\* however many of its linked processes die.
C12_CloseIsIdempotent ==
    [][\A b \in Pids :
          /\ (~isOpen[b] /\ ClosesMailbox(b)) =>
                 (~isOpen'[b] /\ queue'[b] = queue[b] /\ killedLog'[b] = killedLog[b])
          /\ (isOpen[b] /\ isOpen'[b]) => ~ClosesMailbox(b)
          /\ killedLog'[b] # killedLog[b] => (isOpen[b] /\ ~isOpen'[b])
          /\ killedLog'[b] <= 1]_vars

\* two processes linked to the same non-trapping peer have both died
\* non-gracefully and finished their loops; the peer was logged once
C12_Witness ==
    \E b \in Pids : \E a1 \in Pids : \E a2 \in Pids :
        /\ a1 # a2 /\ a1 # b /\ a2 # b
        /\ b \in linked[a1] /\ b \in linked[a2]
        /\ ~trapExit[b]
        /\ pc[a1] = "done" /\ pc[a2] = "done"
        /\ ~gracefulExit[a1] /\ ~gracefulExit[a2]
        /\ todo[a1] = {} /\ todo[a2] = {}
        /\ killedLog[b] = 1

\* C13: a closed mailbox never reopens and never takes another message:
\* from a state where the mailbox of p is closed, no step of send, try_send,
\* receive, kill or termination opens it or lengthens its queue, and a send
\* to p by anyone ends in ProcessKilled or ProcessExited (the put fails).
C13_ClosedStaysClosed ==
    [][\A p \in Pids :
          ~isOpen[p] =>
             /\ ~isOpen'[p]
             /\ Len(queue'[p]) <= Len(queue[p])
             /\ \A self \in Pids :
                    SendOutcome(self, p) \in {"ProcessKilled", "ProcessExited"}]_vars

\* a process sent to a closed mailbox that still buffers items, and its
\* body ended on the ProcessExited that send raised
C13_Witness ==
    \E self \in Pids : \E p \in Pids :
        /\ self # p
        /\ ~isOpen[p]
        /\ queue[p] # <<>>
        /\ pc[self] # "running"
        /\ exitReason[self] = "exception"

\* C14: send(pid, m) by a process whose own mailbox is closed raises
\* ProcessKilled (the body ends with reason "killed") and puts nothing,
\* whether the target is open or closed; otherwise, when the target's
\* mailbox is closed, send raises ProcessExited (an uncaught exception of
\* the body) and puts nothing; try_send differs from send only in turning
\* ProcessExited into a false result: the body goes on.
C14_SendOutcome ==
    [][\A self \in Pids : \A pid \in Pids :
          /\ ((send(self, pid) \/ try_send(self, pid)) /\ ~isOpen[self]) =>
                 /\ queue' = queue
                 /\ pc'[self] = "exiting"
                 /\ exitReason'[self] = "killed"
          /\ (send(self, pid) /\ isOpen[self] /\ ~isOpen[pid]) =>
                 /\ queue' = queue
                 /\ pc'[self] = "exiting"
                 /\ exitReason'[self] = "exception"
          /\ (try_send(self, pid) /\ isOpen[self] /\ ~isOpen[pid]) =>
                 /\ queue' = queue
                 /\ pc'[self] = "running"
                 /\ exitReason'[self] = exitReason[self]
          /\ ((send(self, pid) \/ try_send(self, pid)) /\ isOpen[self] /\ isOpen[pid]) =>
                 /\ queue'[pid] = Append(queue[pid], UserMsg(self, sentCount[self] + 1))
                 /\ pc'[self] = "running"]_vars

\* a process whose closed mailbox still buffers items (so receive did not
\* raise) ended with reason "killed" on a send to an open mailbox, which
\* holds no message of its last send
C14_Witness ==
    \E self \in Pids : \E pid \in Pids :
        /\ self # pid
        /\ exitReason[self] = "killed"
        /\ queue[self] # <<>>
        /\ sentCount[self] >= 1
        /\ isOpen[pid]
        /\ lastGot[pid][self] < sentCount[self]
        /\ \A i \in 1..Len(queue[pid]) :
              ~(queue[pid][i].from = self /\ queue[pid][i].k = sentCount[self])

(***************************************************************************)
(* Claims about the negociation frames.                                    *)
(***************************************************************************)

\* the payload has no leading and no trailing whitespace
Trimmed(m) == m = <<>> \/ (Head(m) \notin Whitespace /\ m[Len(m)] \notin Whitespace)

StateRank(s) ==
    CASE s = "created" -> 1
      [] s = "inactive" -> 2
      [] s = "active" -> 3
      [] s = "finished" -> 4
      [] s = "closed" -> 5
      [] OTHER -> 0

\* C16 (as claimed): under any sequence of commands and remote-state-changed
\* events the transfer state never returns to an earlier state of the order
\* created, inactive, active, finished, closed, and once it is closed it
\* does not change any more.
C16_StateOnlyMovesForward ==
    [][/\ StateRank(transferState') >= StateRank(transferState)
       /\ transferState = "closed" => transferState' = "closed"]_vars

\* the send-block commands of the upload so far carry the block IDs 0, 1, 2,
\* ... in this order, each once, all below totalBlocks, each with the bytes
\* of its block of the file (1024, or what is left of the file)
EmittedInOrder ==
    \A i \in 1..Len(emitted) :
        /\ emitted[i].blockID = i - 1
        /\ emitted[i].blockID < totalBlocks
        /\ emitted[i].at = (i - 1) * BlockSize
        /\ emitted[i].len = BlockLen(fileSize, i - 1)
        /\ emitted[i].len > 0

\* C17 (as claimed): an upload emits send-block for the block IDs 0, 1, ...,
\* totalBlocks-1 in strictly increasing order, each exactly once, never one
\* with an ID >= totalBlocks, and it is in the state finished only after all
\* totalBlocks blocks were emitted.
C17_UploadEmitsAllBlocks ==
    direction = UPLOAD =>
        /\ EmittedInOrder
        /\ transferState = "finished" => Len(emitted) = totalBlocks

\* the part of C17 about the blocks an upload emits, without the state
C17_BlocksInOrder == direction = UPLOAD => EmittedInOrder

(***************************************************************************)
(* Claims about the end of a process.                                      *)
(***************************************************************************)

\* C18 (as claimed): once the body of a process has terminated and its
\* thread has left Process._entry, its PID is not in the registry any more
\* (so Process.kill on it finds no process and returns false): the registry
\* holds live processes only.
C18_DeadProcessUnregistered ==
    \A p \in Pids : pc[p] = "done" => p \notin registry

\* C19 (as claimed): when a process a has terminated, for any cause, the
\* loop over its link set has handled every peer and its own mailbox is
\* closed: every peer that trapped exits (and is still alive) was sent the
\* exit event, and after a non-graceful end the mailbox of every peer that
\* did not trap is closed, whatever mix of peers the link set holds.
C19_EveryPeerHandled ==
    \A a \in Pids :
        pc[a] = "done" =>
            /\ ~isOpen[a]
            /\ todo[a] = {}
            /\ \A b \in linked[a] :
                  IF b \in trapAtExit[a]
                  THEN isOpen[b] => exitSent[a][b] >= 1
                  ELSE (~gracefulExit[a] /\ ~trapExit[b]) => ~isOpen[b]

(***************************************************************************)
(* Claims about the responsiveness of the messenger.                       *)
(***************************************************************************)

\* a stop command waits in the messenger's mailbox
StopPending == \E i \in 1..Len(mbox) : mbox[i].tag = "stop"

\* C20 (as claimed): the messenger never blocks on a socket in its own
\* thread: when a stop command is sent while a connection is being
\* negociated, whatever the peer does (even if it sends nothing), the
\* command is eventually processed and the messenger ends.
C20_StopProcessedDuringNegociation ==
    (mPc = "negociating" /\ StopPending) ~> (mPc = "done")

(***************************************************************************)
(* The lock and the mailboxes.                                             *)
(***************************************************************************)
\* process a is inside "with cls._lock" of the finally block of _entry and
\* its try_send to the trapping peer b waits in put: b's mailbox is full
BlockedHoldingLock(a, b) ==
    /\ pc[a] = "exiting"
    /\ lock = a
    /\ b \in todo[a]
    /\ trapExit[b]
    /\ SendOutcome(a, b) = "blocked"

\* no step taken while a process owns the lock puts a message in a mailbox
\* or closes one
C21_NoMailboxOpUnderLock ==
    [][\A a \in Pids : lock = a =>
         \A b \in Pids : /\ Len(queue'[b]) <= Len(queue[b])
                         /\ isOpen'[b] = isOpen[b]]_vars

\* C21 (as claimed): the registry lock is never held while a mailbox
\* operation is performed; in particular a terminating process that
\* delivers the exit event to a trapping peer whose mailbox is full does not
\* wait in put while it owns the lock (it cannot block the spawn, send and
\* kill of the other processes, nor deadlock with that peer).
C21_LockNotHeldAcrossMailboxOps ==
    \A a \in Pids : \A b \in Pids : ~BlockedHoldingLock(a, b)

(***************************************************************************)
(* The end of the stream.                                                  *)
(***************************************************************************)
\* Event("end-of-stream", ...) of the helper h is in the messenger's mailbox
EndOfStreamPosted(h) ==
    \E i \in DOMAIN mbox : mbox[i] = Msg("end-of-stream", h)

\* the messenger has no connection
NoConnection ==
    /\ connState = DISCONNECTED
    /\ conn = 0
    /\ ~writer
    /\ protocol = <<>>
    /\ receiver = 0

\* the step of the helper h that ends its reader loop
ReaderLoopEnds(h) == hPc[h] = "receiving" /\ hPc'[h] = "done"

\* the step of the messenger's loop that takes end-of-stream off the mailbox
TakesEndOfStream ==
    /\ mPc = "loop"
    /\ mbox # <<>>
    /\ Head(mbox).tag = "end-of-stream"
    /\ mbox' = Tail(mbox)

\* when the reader loop of the helper of the current connection ends (EOF or
\* error), the helper puts end-of-stream in the mailbox of the messenger, if
\* it still runs; and the messenger's step that takes an end-of-stream
\* leaves no connection (state DISCONNECTED, no socket, writer, protocol or
\* receiver; the helper's socket is closed) and emits disconnected once
C22_TakingEndOfStreamDisconnects ==
    [][/\ \A h \in Helpers :
             ReaderLoopEnds(h) /\ receiver = h /\ mPc # "done" =>
                 /\ Len(mbox') = Len(mbox) + 1
                 /\ mbox'[Len(mbox')] = Msg("end-of-stream", h)
       /\ TakesEndOfStream =>
             /\ NoConnection'
             /\ conn # 0 => sock'[conn] = "closed"
             /\ events'["disconnected"] = events["disconnected"] + 1]_vars

\* C22 (as claimed): when the receive helper of the current connection has
\* posted end-of-stream, the messenger then handles it (it closes the
\* connection and emits disconnected), unless the messenger ends first.
C22_EndOfStreamDisconnects ==
    \A h \in Helpers :
        (EndOfStreamPosted(h) /\ receiver = h) ~> (~EndOfStreamPosted(h) \/ mPc = "done")

(***************************************************************************)
(* Command("send", ...).                                                   *)
(***************************************************************************)
\* the step of the messenger's loop that takes a send command off the mailbox
TakesSend ==
    /\ mPc = "loop"
    /\ mbox # <<>>
    /\ Head(mbox).tag = "send"
    /\ mbox' = Tail(mbox)

\* the fields of the messenger's state
MessengerState ==
    <<mPc, connState, server, conn, protocol, writer, receiver, acceptReceiver,
      connectReceiver>>

TakesLateConnected ==
    /\ mPc = "loop"
    /\ mbox # <<>>
    /\ Head(mbox).tag = "connected"
    /\ mbox' = Tail(mbox)
    /\ receiver # 0

\* C24: at most one connection is in place: a helper that reads from an open
\* socket is the helper of the messenger's connection.  When the messenger
\* takes the connected event of a helper while it has a connection, the
\* connection is kept as it is (state, socket, protocol, writer, receiver,
\* the bytes on the wire, no event emitted) and the late helper is sent
\* close; a helper that was sent close closes its socket and ends: it never
\* enters the reader loop and posts nothing to the messenger.
C24_OneConnection ==
    /\ [](\A h \in Helpers :
            /\ hPc[h] = "receiving" /\ sock[h] = "open" => conn = h
            /\ hBox[h] = "close" => hPc[h] = "session")
    /\ [][/\ TakesLateConnected =>
                /\ <<mPc, connState, conn, protocol, writer, receiver>>' =
                       <<mPc, connState, conn, protocol, writer, receiver>>
                /\ <<wire, negPc, closed, events, sock>>' =
                       <<wire, negPc, closed, events, sock>>
                /\ Head(mbox).h # conn
                /\ hBox'[Head(mbox).h] = "close"
          /\ \A h \in Helpers :
                hBox[h] = "close" /\ hPc'[h] # hPc[h] =>
                    /\ hPc'[h] = "done"
                    /\ sock'[h] = "closed"
                    /\ mbox' = mbox]_vars

\* an accept and a connect both succeeded: the second helper was sent close
C24_Witness ==
    \E h \in Helpers :
        /\ hBox[h] = "close"
        /\ sock[h] = "open"
        /\ conn # 0 /\ conn # h
        /\ sock[conn] = "open"
        /\ connState = CONNECTED
        /\ hKind[h] # hKind[conn]

EndedGracefully(a) == gracefulExit[a] /\ exitReason[a] = "None"

\* the cause was one of the non-graceful ones
EndedNonGracefully(a) ==
    ~gracefulExit[a] /\ exitReason[a] \in {"killed", "no-match", "exception", "user"}

\* a process that ends gracefully closes no mailbox of a peer
C26_GracefulLeavesPeersOpen ==
    [][\A a \in Pids :
         pc[a] = "exiting" /\ lock = a /\ EndedGracefully(a) =>
             \A b \in Pids \ {a} : isOpen'[b] = isOpen[b]]_vars

\* C26 (as claimed): what the end of a process does to a linked peer that
\* does not trap exits depends on the cause: a process that ends gracefully
\* (return or exit(None)) closes no peer's mailbox (the action property
\* above), and after every non-graceful end (killed, no-match, exception,
\* exit with a reason) the mailbox of every such peer is closed.
C26_PropagationByCause ==
    \A a \in Pids :
        pc[a] = "done" =>
            /\ EndedGracefully(a) \/ EndedNonGracefully(a)
            /\ EndedNonGracefully(a) =>
                   \A b \in linked[a] : ~trapExit[b] => ~isOpen[b]

(***************************************************************************)
(* A message that no pattern matches.                                      *)
(***************************************************************************)
\* the exit events of process a buffered in the mailbox of b
ExitEventsOf(a, b) ==
    {i \in DOMAIN queue[b] : queue[b][i].kind = "exit" /\ queue[b][i].from = a}

InRange == 0..(totalBlocks - 1)

\* what a block writes or counts
BlockCounters ==
    <<disk, receivedBlocks, completedSize, offset, blockTable, streamPos>>

\* C28: on a download, a block-received event whose blockID is outside
\* 0..totalBlocks-1 (too large or negative) or whose block was received
\* already writes nothing and changes no counter; in every state of a
\* download receivedBlocks is the number of distinct in-range blocks marked
\* received, every marked block is in range, and receivedBlocks is at most
\* totalBlocks.
C28_OnlyNewInRangeBlocksCount ==
    /\ [][\A blockID \in BlockIDs :
            (/\ OnBlockReceived(blockID)
             /\ direction = DOWNLOAD
             /\ (blockID \notin InRange \/ blockID \in blockTable)) =>
                BlockCounters' = BlockCounters]_vars
    /\ [](direction = DOWNLOAD =>
            /\ receivedBlocks = Cardinality(blockTable \cap InRange)
            /\ blockTable \subseteq InRange
            /\ receivedBlocks <= totalBlocks)

\* a download that goes on after it was given a block twice and a block
\* beyond the end of its file
C28_Witness ==
    /\ trPc = "loop"
    /\ direction = DOWNLOAD
    /\ totalBlocks = 2
    /\ blockTable = {1}
    /\ receivedBlocks = 1
    /\ delivered[1] = 2
    /\ delivered[2] >= 1
    /\ Len(disk) = 1

(***************************************************************************)
(* The end of a download and the start of a transfer.                      *)
(***************************************************************************)
\* C29 (as claimed): a download that has received all the blocks of its file
\* (receivedBlocks = totalBlocks) is not left active by any handler: it is
\* finished.  This includes the download of the empty file (totalBlocks =
\* 0), which is finished once it is active though no block is sent to it.
C29_CompleteDownloadFinishes ==
    (direction = DOWNLOAD /\ trPc = "loop" /\ transferState = "active") =>
        receivedBlocks # totalBlocks

\* the part of C29 that the code has: the handler of the block that
\* completes a download leaves it finished
C29_LastBlockFinishes ==
    [][\A blockID \in BlockIDs :
         (/\ OnBlockReceived(blockID)
          /\ direction = DOWNLOAD
          /\ trPc' = "loop"
          /\ receivedBlocks' = totalBlocks) =>
             transferState' = "finished" /\ ended']_vars

\* C30 (as claimed): start-transfer on an initialised (inactive) transfer
\* marks the start time and makes the transfer active, for an upload and for
\* a download; only the upload goes on to emit a block (an upload with no
\* block left to emit is finished in the same handler).
C30_StartActivatesBothDirections ==
    [][(DoStartTransfer /\ transferState = "inactive") =>
          /\ started'
          /\ transferState' = IF direction = UPLOAD /\ nextBlock >= totalBlocks
                              THEN "finished" ELSE "active"
          /\ direction = DOWNLOAD => emitted' = emitted
          /\ (direction = UPLOAD /\ nextBlock < totalBlocks) =>
                 Len(emitted') = Len(emitted) + 1]_vars

\* the part of C30 that the code has: the upload
C30_StartActivatesUpload ==
    [][(DoStartTransfer /\ transferState = "inactive" /\ direction = UPLOAD) =>
          /\ started'
          /\ transferState' = IF nextBlock >= totalBlocks THEN "finished" ELSE "active"
          /\ nextBlock < totalBlocks => Len(emitted') = Len(emitted) + 1]_vars

(***************************************************************************)
(* Closing a transfer.                                                     *)
(***************************************************************************)
\* the handler of a message that closes the transfer
Closes == DoCloseTransfer \/ OnRemoteStateChanged("closed")

\* C31: closing a transfer, by close-transfer or by
\* remote-state-changed('closed'), closes its file, ends its process
\* gracefully (exit reason None) and leaves the state closed, announced by
\* exactly one transfer-state-changed 'closed' event; an ended transfer
\* handles no further message: none of its fields changes afterwards.
C31_CloseIsFinal ==
    /\ [][Closes =>
            /\ streamMode' = "None"
            /\ trPc' = "done"
            /\ trExitReason' = "None"
            /\ transferState' = "closed"
            /\ closedEvents = 0 /\ closedEvents' = 1
            /\ cleanups' = 1]_vars
    /\ [][trPc = "done" => UNCHANGED trVars]_vars
    /\ [](trPc = "done" => transferState = "closed" /\ closedEvents = 1)

\* a download closed gracefully after it wrote a block of its file
C31_Witness ==
    /\ trPc = "done"
    /\ trExitReason = "None"
    /\ direction = DOWNLOAD
    /\ Len(disk) >= 1
    /\ transferState = "closed"
    /\ closedEvents = 1
    /\ streamMode = "None"
    /\ ~ended

(***************************************************************************)
(* Upload backpressure.                                                    *)
(***************************************************************************)
\* the handlers that may emit a block: the start of the transfer (by
\* start-transfer or by the remote's 'active') and send-idle
EmitTrigger == DoStartTransfer \/ OnRemoteStateChanged("active") \/ OnSendIdle

\* C32: a handler emits at most one send-block, and only the handler of a
\* trigger (the start of the transfer or a send-idle event) emits one; a
\* send-idle event emits a block only on an upload in the active state;
\* send-idle on a download, or on a transfer that is not started, is
\* finished or is not initialised yet, emits nothing and changes no state.
C32_OneBlockPerTrigger ==
    /\ [][emitted' # emitted =>
            \/ emitted' = <<>>
            \/ /\ Len(emitted') = Len(emitted) + 1
               /\ SubSeq(emitted', 1, Len(emitted)) = emitted
               /\ EmitTrigger]_vars
    /\ [][OnSendIdle =>
            /\ emitted' # emitted =>
                  /\ direction = UPLOAD /\ transferState = "active"
                  /\ emitted'[Len(emitted')].blockID = nextBlock
            /\ (\/ direction # UPLOAD
                \/ ~started
                \/ transferState = "finished"
                \/ transferState = "None") => UNCHANGED trVars]_vars

\* an active upload that emitted its first two blocks, with a third to send
C32_Witness ==
    /\ trPc = "loop"
    /\ direction = UPLOAD
    /\ transferState = "active"
    /\ started
    /\ Len(emitted) = 2
    /\ nextBlock = 2
    /\ totalBlocks = 3

(***************************************************************************)
(* The notifier and the event sender.                                      *)
(***************************************************************************)
\* the PIDs the loop of the call has visited
Visited == {ntOrder[i] : i \in DOMAIN ntOrder}

\* the message of the call in progress
NotifiedMsg == UserMsg(NotifierCaller, ntSeq)

\* C33: a call of the notifier sends the message once to every process that
\* was suscribed when the call began: the loop visits each PID of the copy
\* exactly once, a visit puts the message in the PID's mailbox exactly when
\* Process.send succeeds and touches no other mailbox, and a send that fails
\* (the suscriber has exited or is unknown, the caller was killed) neither
\* stops the loop nor raises to the caller.
C33_DispatchReachesEverySuscriber ==
    /\ [][\A pid \in Pids :
            notify_send(NotifierCaller, pid) =>
                /\ ntTodo' = ntTodo \ {pid}
                /\ ntRaised' = "-"
                /\ queue' = IF NotifySendOutcome(NotifierCaller, pid) = "ok"
                            THEN [queue EXCEPT ![pid] = Append(@, NotifiedMsg)]
                            ELSE queue
                /\ (pid \in ntFailed') = (NotifySendOutcome(NotifierCaller, pid) # "ok")]_vars
    /\ [](/\ Visited \subseteq ntCopy
          /\ Cardinality(Visited) = Len(ntOrder)
          /\ ntTodo = ntCopy \ Visited
          /\ ntFailed \subseteq Visited
          /\ (ntPc = "idle" /\ ntRaised = "-") => Visited = ntCopy
          /\ ntEvent = <<>> => ntRaised = "-")

\* the loop visited a suscriber that has exited, then the caller itself,
\* which holds the message
C33_Witness ==
    /\ ntPc = "idle"
    /\ ntEvent = <<>>
    /\ ntCopy = {1, 2}
    /\ ntOrder = <<2, 1>>
    /\ ntFailed = {2}
    /\ pc[2] = "done"
    /\ queue[1] = <<UserMsg(NotifierCaller, 1)>>
    /\ ntRaised = "-"

\* the argument lists that fit EventSender("a", basestring): one argument
\* that is a string or None
FitsSender(args) == Len(args) = 1 /\ args[1] \notin IntObjects

\* C34: the event sender is fail-fast.  Called with arguments that do not
\* fit its declared pattern (wrong arity, or an argument that is not of the
\* declared type) it raises TypeError, visits no suscriber and puts nothing
\* in any mailbox; called with arguments that fit, it raises nothing and
\* sends the event built from its name and the arguments to every process
\* suscribed at that time, as the notifier does.
C34_EventSenderFailFast ==
    /\ [][\A args \in SenderArgs :
            EventSender_call(NotifierCaller, args) =>
                /\ ntEvent' = <<"Event", "a">> \o args
                /\ queue' = queue
                /\ IF FitsSender(args)
                   THEN /\ ntRaised' = "-"
                        /\ ntCopy' = suscribers
                        /\ ntTodo' = suscribers
                   ELSE /\ ntRaised' = "TypeError"
                        /\ ntPc' = "idle"
                        /\ ntTodo' = {}]_vars
    /\ [](ntRaised = "TypeError" =>
            /\ ntPc = "idle"
            /\ ntOrder = <<>>
            /\ \A p \in Pids : \A i \in DOMAIN queue[p] : queue[p][i] # NotifiedMsg)
    /\ []((ntEvent # <<>> /\ ntRaised = "-" /\ ntPc = "idle") => Visited = ntCopy)

\* the sender was called with an int while two processes were suscribed:
\* it raised and no mailbox holds anything
C34_Witness ==
    /\ ntRaised = "TypeError"
    /\ ntEvent = <<"Event", "a", "int 5">>
    /\ suscribers = {1, 2}
    /\ isOpen[1] /\ isOpen[2]
    /\ queue[1] = <<>> /\ queue[2] = <<>>

(***************************************************************************)
(* The link relation.                                                      *)
(***************************************************************************)
\* C35: the link relation is symmetric in every reachable state (b is in
\* a's link set exactly when a is in b's); no process is linked to itself
\* or to a PID that was never created; the step that creates a process is
\* the only one that changes a link set: spawn_linked adds the new PID to
\* the caller's set and the caller's PID to the new process's set in that
\* one step, and plain spawn leaves every link set as it was.
C35_LinksSymmetric ==
    /\ [](\A a \in Pids :
            /\ \A b \in Pids : (b \in linked[a]) = (a \in linked[b])
            /\ a \notin linked[a]
            /\ linked[a] \subseteq registry
            /\ a \notin registry => linked[a] = {})
    /\ [][linked' # linked =>
            /\ nextID' = nextID + 1
            /\ pc[nextID] = "unborn"
            /\ \E self \in registry :
                  /\ pc[self] = "running"
                  /\ linked' = [linked EXCEPT ![nextID] = {self},
                                              ![self] = linked[self] \cup {nextID}]]_vars
    /\ [][(nextID' # nextID /\ spawn) => linked' = linked]_vars

\* a chain of links made by two calls of spawn_linked, kept after the first
\* process has ended
C35_Witness ==
    /\ linked[1] = {2}
    /\ linked[2] = {1, 3}
    /\ linked[3] = {2}
    /\ pc[1] = "done"
    /\ pc[3] = "running"

(***************************************************************************)
(* The responder and the echo of its choice.                               *)
(***************************************************************************)
\* the responder reads a well-formed 'protocol <name>' frame whose name is
\* not the choice it sent
ReadsOtherEcho ==
    /\ negPc["local"] = "readEcho"
    /\ readProtocol(Incoming("local"), AtEof("local")).status = "ok"
    /\ readProtocol(Incoming("local"), AtEof("local")).name # negName["local"]
    /\ serverNegociation

\* the part of C36 that the code has: the negociation of a responder that
\* reads another name than its choice fails and returns no protocol name
C36_OtherEchoReturnsNoName ==
    [][ReadsOtherEcho => negPc'["local"] = "failed" /\ negName'["local"] = <<>>]_vars

\* C36 (as claimed): after it sent 'protocol <choice>', a responder that
\* reads an echo naming a protocol different from its choice fails with
\* NegociationError and returns no protocol name.
C36_OtherEchoIsNegociationError ==
    [][ReadsOtherEcho =>
          /\ negPc'["local"] = "failed"
          /\ negError'["local"] = "NegociationError"
          /\ negName'["local"] = <<>>]_vars

(***************************************************************************)
(* Transaction IDs of the requests and notifications of a service.         *)
(***************************************************************************)
\* the transaction IDs the service p gave to its requests and notifications
IDsGiven(p) == {e[2] : e \in requested[p] \cup notified[p]}

\* the requests and notifications of p that its peer has not received yet
OwnIDsInFlight(p) ==
    SelectSeq(outbox[p], LAMBDA m : m.kind \in {"Request", "Notification"})

\* C37: within one run of a service the transaction IDs given to outbound
\* requests and notifications come from one counter that starts at 1: the
\* IDs given so far are exactly 1..nextTransID-1, no ID was given to two
\* messages (two requests, two notifications, or a request and a
\* notification), each request or notification sent carries an ID greater
\* than every ID given before, and on the way to the peer they are in
\* increasing order of ID.
C37_TransIDsIncrease ==
    /\ [](\A p \in Services :
            /\ IDsGiven(p) = 1..(nextTransID[p] - 1)
            /\ Cardinality(requested[p]) + Cardinality(notified[p])
                  = Cardinality(IDsGiven(p))
            /\ \A i, j \in DOMAIN OwnIDsInFlight(p) :
                  i < j => OwnIDsInFlight(p)[i].transID < OwnIDsInFlight(p)[j].transID)
    /\ [][\A p \in Services :
            (requested'[p] # requested[p] \/ notified'[p] # notified[p]) =>
                /\ nextTransID'[p] = nextTransID[p] + 1
                /\ outbox'[p][Len(outbox'[p])].transID = nextTransID[p]
                /\ \A id \in IDsGiven(p) : id < nextTransID[p]
                /\ IDsGiven(p)' = IDsGiven(p) \cup {nextTransID[p]}]_vars

\* the client sent a request and then a notification: IDs 1 and 2
C37_Witness ==
    /\ requested["client"] = {<<"swap", 1>>}
    /\ notified["client"] = {<<"list", 2>>}
    /\ nextTransID["client"] = 3
    /\ Len(outbox["client"]) = 2

(***************************************************************************)
(* An end-of-stream that arrives after a new connection was adopted.       *)
(***************************************************************************)
\* the messenger takes an end-of-stream posted by a helper that is not the
\* one of the connection it has
TakesLateEndOfStream ==
    /\ TakesEndOfStream
    /\ conn # 0
    /\ Head(mbox).h # conn

\* C38 (as claimed): an end-of-stream affects only the connection served by
\* the helper that posted it: when the messenger has disconnected and
\* adopted a new connection meanwhile, the end-of-stream of the previous
\* helper leaves the new connection open and in place and emits no
\* disconnected event.
C38_LateEndOfStreamIgnored ==
    [][TakesLateEndOfStream =>
          /\ conn' = conn
          /\ connState' = CONNECTED
          /\ sock'[conn] = "open"
          /\ receiver' = receiver
          /\ events'["disconnected"] = events["disconnected"]]_vars

(***************************************************************************)
(* A new attempt after a helper failed.                                    *)
(***************************************************************************)
\* the helper rcv that the messenger holds as pending (state.connectReceiver
\* or state.acceptReceiver) has ended without a connection
HelperFailed(rcv) == rcv # 0 /\ hPc[rcv] = "done"

\* C39 (as claimed): once the connect helper has failed (connection-error
\* was reported) or the accept helper has ended without a connection, no
\* establishment is pending: a later connect, or a later accept on a
\* listening messenger, handled in the state DISCONNECTED starts a new helper
\* and is neither rejected nor ignored.
C39_RetryAfterFailure ==
    [][/\ (Handles("connect") /\ connState = DISCONNECTED /\ HelperFailed(connectReceiver)
              /\ CanSpawn) =>
             /\ \E h \in Helpers : hPc[h] = "unused" /\ hPc'[h] = "waiting"
                                    /\ hKind'[h] = "connect"
             /\ events'["connection-error:invalid-state"]
                   = events["connection-error:invalid-state"]
       /\ (Handles("accept") /\ connState = DISCONNECTED /\ server
              /\ HelperFailed(acceptReceiver) /\ CanSpawn) =>
             /\ \E h \in Helpers : hPc[h] = "unused" /\ hPc'[h] = "waiting"
                                    /\ hKind'[h] = "accept"
             /\ events'["accept-error:invalid-state"]
                   = events["accept-error:invalid-state"]]_vars

(***************************************************************************)
(* Fate-sharing along the links of processes that do not trap exits.       *)
(***************************************************************************)
\* the process has ended and its mailbox is closed
Ended(p) == pc[p] = "done" /\ ~isOpen[p]

\* C40: fate-sharing is transitive along non-trapping links.  In a group of
\* linked processes none of which traps exits, each waiting in receive,
\* once one of them is killed every process of the group ends with its own
\* mailbox closed: the process at the far end of a chain as well.  The
\* links back to the processes that have ended already (every link is
\* symmetric) do not keep the propagation going: it terminates.
C40_FateSharingIsTransitive ==
    (\E a \in Pids : ~isOpen[a]) ~> (\A p \in Pids : Ended(p) /\ lock = NoPid)

\* the chain 1 - 2 - 3 after process 1 was killed: 2 and 3 were closed by
\* the exit loops of 1 and 2, and all three have ended
C40_Witness ==
    /\ linked[2] = {1, 3}
    /\ \A p \in Pids : Ended(p)
    /\ exitReason = [p \in Pids |-> "killed"]
    /\ killedLog = [p \in Pids |-> IF p = 1 THEN 0 ELSE 1]

================================================================================
